---- MODULE Spec2Model ----
(***************************************************************************)
(* Agent Arcade: readiness detection of the agent handles                  *)
(* (GenericAgent, ClaudeCodeAgent, CodexAgent, and the earlier             *)
(* AIMonitor pattern loop), the restart guard shell that wraps every pane  *)
(* command, and the supervisor (run_with_agent) with its pane-health loop. *)
(*                                                                         *)
(* The main specifications of the module:                                  *)
(*   Spec           one agent handle, its detection loop and its inputs    *)
(*   SpecGuard      one restart-guard shell around one wrapped command     *)
(*   SpecSupervisor the supervising process, its pane-health thread and    *)
(*                  the tmux session                                       *)
(* The others (SpecFaulty, SpecCodex, SpecWriter, SpecLive, SpecStatus,    *)
(* SpecDirect, SpecBar, SpecInFlight, SpecSidecar, SpecPanes,              *)
(* SpecLauncher) are one part of these on its own or with further inputs.  *)
(* Time is counted in whole seconds in Spec and in ticks, TicksPerSecond  *)
(* to the second, in SpecGuard (date +%s truncates to whole seconds).      *)
(***************************************************************************)
EXTENDS Integers, Sequences, FiniteSets, TLC

\* ------------------------------------------------------------------------
\* Bounds of the model
\* ------------------------------------------------------------------------
MaxTime == 3          \* last second of the clock of Spec (the clock starts at 1)
MaxTextLen == 3       \* longest captured pane text, in characters
MaxNotes == 2         \* on_state_change invocations recorded
MaxThreads == 2       \* detection threads alive at once (a join can time out)
MaxFileLen == 2       \* lines appended to the session transcript / raw log
TicksPerSecond == 2   \* resolution of the clock of SpecGuard
MaxGuardSeconds == 7  \* last second of the clock of SpecGuard
MaxFiles == 2         \* session transcripts that become the latest in turn
MaxRounds == 2        \* menus the agent-launcher wrapper loop shows

\* ------------------------------------------------------------------------
\* Program constants
\* ------------------------------------------------------------------------
inactivity_timeout == 2         \* seconds
FastWindow == 5                 \* "[ $runtime -lt 5 ]"
FastThreshold == 2              \* "[ $fast_count -ge 2 ]"
FailureLimit == 3               \* "ai_failures >= 3 or game_failures >= 3"

VARIABLES
    \* ---- agent handle (Spec) ----
    kind,               \* which handle: "generic", "legacy", "claude", "codex"
    now,                \* time.time(), whole seconds
    is_idle,            \* _is_idle (AIMonitor._is_ready for "legacy")
    running,            \* _running
    threads,            \* number of live detection-loop threads
    notes,              \* arguments of the on_state_change invocations, in order
    starts,             \* whether the step that led here was a
                        \* start_detection call, and what it found
    last_output,        \* _last_output
    last_change_time,   \* _last_change_time
    result,             \* what the latest pattern poll computed
    state_file,         \* the sidecar file: [exists, mtime, content]
    last_mtime,         \* _last_mtime
    scen,               \* observer of the busy-then-idle overwrite scenario
    session_dir,        \* latest rollout-*.jsonl: [exists, id, lines]
    session_file,       \* _session_file: the id of the file last used, or None
    session_last_position,
    session_last_activity,
    log_file,           \* the raw log: [exists, lines]
    last_position,
    last_activity,
    tmux_marker_seen,
    tmux_missing_since,
    batch,              \* what the Codex poll that led here read: its
                        \* source, whether Active / turn-end markers were in it
    poll_error,         \* the exception the poll that led here ended in:
                        \* "none", "query", "data" or "callback"
    \* ---- status bar and companion-status loop (Spec, kind "monitor") ----
    agent_state_idle,   \* TmuxManager.agent_state_idle
    current_game,       \* TmuxManager.current_game ("" for None)
    opt_selected,       \* the tmux option @selected-agent ("" while unset)
    opt_game,           \* the tmux option @current-game ("" while unset)
    status_bar,         \* config.tmux.status_bar
    calls,              \* SpecBar: the status-bar calls in progress, by thread
    bar,                \* what tmux shows: [style, left, right]
    render,             \* what the latest call on the status bar did
    \* ---- restart guard shell (SpecGuard) ----
    g_pc,               \* where the shell loop is
    clock,              \* wall clock, in ticks (TicksPerSecond to a second)
    start,              \* $start, whole seconds
    fast_count,         \* $fast_count
    crash_env,          \* AGENT_ARCADE_CRASH_FILE is exported
    crash_file,         \* contents of the crash file ("" while not written)
    g_session,          \* the tmux session the pane lives in
    g_exit,             \* exit status of the shell (NoExit while it runs)
    runs,               \* clock ticks [s, e] at which the latest runs of
                        \* the command began and ended (latest last)
    shells,             \* SpecPanes: the guard shell of each pane
    \* ---- supervisor (SpecSupervisor) ----
    pc,                 \* where the main thread of run_with_agent is
    mon_pc,             \* the pane-health thread
    ai_failures,
    game_failures,
    stop_event,
    session,            \* the tmux session: "none", "alive", "killed"
    exit_code,          \* exit status of the process (NoExit while it runs)
    interrupted,        \* a SIGINT / KeyboardInterrupt was handled
    ai_hist,            \* outcomes of the latest checks of the AI pane
    game_hist,          \* outcomes of the latest checks of the game pane
    printed,            \* what the supervisor printed last: [stream, text]
    kills,              \* kill_session calls the supervisor has made
    created,            \* the create_session call and what it left behind
    pane_q              \* what list-panes answered in the latest check

agentVars == <<kind, now, is_idle, running, threads, notes, starts,
               last_output, last_change_time, result,
               state_file, last_mtime, scen,
               session_dir, session_file, session_last_position,
               session_last_activity,
               log_file, last_position, last_activity,
               tmux_marker_seen, tmux_missing_since, batch, poll_error,
               agent_state_idle, current_game, opt_selected, opt_game,
               status_bar, calls, bar, render>>

guardVars == <<g_pc, clock, start, fast_count, crash_env, crash_file,
               g_session, g_exit, runs, shells>>

supVars == <<pc, mon_pc, ai_failures, game_failures, stop_event, session,
             exit_code, interrupted, ai_hist, game_hist,
            printed, kills, created, pane_q>>

vars == <<agentVars, guardVars, supVars>>

\* the processes an action of Spec leaves alone
statusVars == <<agent_state_idle, current_game, opt_selected, opt_game,
                status_bar, calls, bar, render>>
notAgent == <<guardVars, supVars, statusVars>>

\* a timestamp or a file id that is not set (time.time() is never 0)
None == 0

\* ------------------------------------------------------------------------
\* Pane text.  A captured text is a sequence of characters; "E" stands for
\* one ANSI escape sequence (capture-pane -e keeps them), "p" for a prompt
\* character.
\* ------------------------------------------------------------------------
Chars == {"p", "E"}
Texts == UNION {[1..n -> Chars] : n \in 0..MaxTextLen}

\* config.ready_patterns, compiled: here one pattern, the prompt "pp"
ready_patterns == << <<"p", "p">> >>

\* GenericAgent._strip_ansi_codes: every escape sequence is removed
strip_ansi_codes(text) == SelectSeq(text, LAMBDA c : c # "E")

\* the pattern tested with fullmatch in place of search
PatternFullMatch(pattern, text) == text = pattern

\* pattern.search(output): the pattern occurs somewhere in the text
PatternSearch(pattern, text) ==
    \E i \in 1..(Len(text) - Len(pattern) + 1) :
        SubSeq(text, i, i + Len(pattern) - 1) = pattern

\* BaseAgent.check_ready: first matching pattern => ready with confidence
\* 1.0 (100), no match => not ready with confidence 0.0
check_ready(output) ==
    IF \E k \in 1..Len(ready_patterns) : PatternSearch(ready_patterns[k], output)
    THEN [is_ready |-> TRUE, confidence |-> 100]
    ELSE [is_ready |-> FALSE, confidence |-> 0]

\* ------------------------------------------------------------------------
\* The idle flag and its notification
\* ------------------------------------------------------------------------
\* _set_idle without its "if is_idle != self._is_idle"
set_idle_always(st, v) == [is_idle |-> v, notes |-> Append(st.notes, v)]

\* CodexAgent._set_idle, on the pair st = [is_idle, notes]
set_idle(st, v) ==
    IF v # st.is_idle
    THEN [is_idle |-> v, notes |-> Append(st.notes, v)]
    ELSE st

\* GenericAgent._monitor_loop, "Update state and notify if changed"
GenericUpdate(st, v) ==
    IF v # st.is_idle
    THEN [is_idle |-> v, notes |-> Append(st.notes, v)]
    ELSE st

\* ClaudeCodeAgent._monitor_state_file, "Update state and notify if changed"
ClaudeUpdate(st, v) ==
    IF v # st.is_idle
    THEN [is_idle |-> v, notes |-> Append(st.notes, v)]
    ELSE st

\* the handle's flag and callback log as one value
Handle == [is_idle |-> is_idle, notes |-> notes]

\* ------------------------------------------------------------------------
\* Pattern strategy
\* ------------------------------------------------------------------------
\* "if output != self._last_output": the captured text, escape sequences
\* included, is compared with the previous snapshot
OutputChanged(output, last) == output # last

\* the timeout test with ">" in place of ">="
InactivityElapsedLate(since) == since > inactivity_timeout

\* "if time_since_change >= self.inactivity_timeout"
InactivityElapsed(since) == since >= inactivity_timeout

\* one iteration of the loop may run: the flag is set and a thread is alive
\* "while True": a loop that never reads the run flag
LoopRunsForever == threads > 0 /\ Len(notes) < MaxNotes

\* "while self._running": a live loop thread starts another iteration
LoopRuns == running /\ threads > 0 /\ Len(notes) < MaxNotes

patternVars == <<last_output, last_change_time, result>>
sidecarVars == <<state_file, last_mtime, scen>>
codexVars == <<session_dir, session_file, session_last_position,
               session_last_activity, log_file, last_position, last_activity,
               tmux_marker_seen, tmux_missing_since>>

\* the step is not a start_detection call / not a Codex poll
NoCall == "none"
NoBatch == [source |-> "none", active |-> FALSE, idle |-> FALSE]
NotAStart == starts' = NoCall
NotAPoll == batch' = NoBatch

\* the step is not a poll that ended in an exception
NoError == poll_error' = "none"

\* the registered on_state_change callback returns or raises
Callbacks == {"returns", "raises"}

\* how the poll ends: the callback, invoked on a change of the flag, may
\* raise into the loop's "except Exception"
PollEnds(cb) ==
    poll_error' = IF cb = "raises" /\ notes' # notes THEN "callback"
                  ELSE "none"

\* GenericAgent._monitor_loop, the body of one iteration with the capture
\* `output`
GenericIteration(output) ==
    /\ LET changed == OutputChanged(output, last_output)
           lct == IF changed THEN now ELSE last_change_time
           status == check_ready(strip_ansi_codes(output))
           since == now - lct
           idle == IF status.is_ready THEN TRUE ELSE InactivityElapsed(since)
           st == GenericUpdate(Handle, idle)
       IN /\ last_output' = IF changed THEN output ELSE last_output
          /\ last_change_time' = lct
          /\ is_idle' = st.is_idle
          /\ notes' = st.notes
          /\ result' = [polled |-> TRUE,
                        is_ready |-> status.is_ready, idle |-> idle,
                        confidence |-> status.confidence, since |-> since]
    /\ \E cb \in Callbacks : PollEnds(cb)

\* GenericAgent._monitor_loop, one iteration with the capture `output`
GenericPoll(output) ==
    /\ NotAStart
    /\ NotAPoll
    /\ kind = "generic"
    /\ LoopRuns
    /\ GenericIteration(output)
    /\ UNCHANGED <<notAgent, kind, now, running, threads>>
    /\ UNCHANGED <<sidecarVars, codexVars>>

\* check_ready of the ai_arcade agents: control sequences are stripped and
\* the patterns are tested on the cleaned text, first match => confidence
\* 1.0
agent_check_ready(output) == check_ready(strip_ansi_codes(output))

\* AIMonitor._monitor_loop (ai_arcade), one iteration with the capture
\* `output`; no callback is registered on on_ready_changed
LegacyPoll(output) ==
    /\ NotAStart
    /\ NoError
    /\ NotAPoll
    /\ kind = "legacy"
    /\ LoopRuns
    /\ LET changed == OutputChanged(output, last_output)
           lct == IF changed THEN now ELSE last_change_time
           status == agent_check_ready(output)
           since == now - lct
           timeout == ~status.is_ready /\ InactivityElapsed(since)
           ready == status.is_ready \/ timeout
       IN /\ last_output' = IF changed THEN output ELSE last_output
          /\ last_change_time' = lct
          /\ is_idle' = ready
          /\ result' = [polled |-> TRUE,
                        is_ready |-> status.is_ready, idle |-> ready,
                        confidence |-> IF timeout THEN 70 ELSE status.confidence,
                        since |-> since]
    /\ UNCHANGED <<notAgent, kind, now, running, threads, notes>>
    /\ UNCHANGED <<sidecarVars, codexVars>>

\* ------------------------------------------------------------------------
\* Sidecar state-file strategy (ClaudeCodeAgent)
\* ------------------------------------------------------------------------
\* what the hook, or anything else, may leave in the file: the two states,
\* a JSON object without a "state" key, text that is not JSON, and a JSON
\* value that is not an object
Contents == {"idle", "busy", "nokey", "malformed", "notobject"}

\* a parser that accepts any text
ParsedAlways(content) == TRUE

\* json.loads(...) then data.get("state", "idle") == "idle"; Parsed is
\* FALSE where json.loads raises JSONDecodeError
Parsed(content) == content # "malformed"

\* data.get(...) on a JSON value that is not an object raises
\* AttributeError, which the loop's "except Exception" catches
IsObject(content) == content # "notobject"
\* the state read under a key the file does not have: always the default
StateIsIdleDefault(content) == TRUE
StateIsIdle(content) == content \in {"idle", "nokey"}

\* "if mtime != self._last_mtime"
MtimeChanged(mtime, last) == mtime # last

\* The observer of the scenario "the file is overwritten with busy, then
\* with idle, each overwrite with a new mtime, made while detection runs,
\* and each met by a poll".  phase is "off", "busy" (the busy overwrite was
\* made with the handle Idle) or "idle" (the idle overwrite followed the
\* observed busy one); met says a poll ran on the current overwrite; n is
\* the number of notifications made before the busy overwrite.
ScenOff == [phase |-> "off", met |-> FALSE, n |-> 0]
ScenAfterWrite(content) ==
    LET ok == /\ running /\ threads > 0
              /\ state_file.exists /\ state_file.mtime # now
    IN IF ok /\ content = "busy" /\ is_idle
       THEN [phase |-> "busy", met |-> FALSE, n |-> Len(notes)]
       ELSE IF ok /\ content = "idle" /\ scen.phase = "busy" /\ scen.met
       THEN [phase |-> "idle", met |-> FALSE, n |-> scen.n]
       ELSE ScenOff

\* ClaudeCodeAgent._monitor_state_file, one iteration
ClaudePoll ==
    /\ NotAStart
    /\ NotAPoll
    /\ kind = "claude"
    /\ LoopRuns
    /\ IF state_file.exists
       THEN /\ scen' = IF scen.phase = "off" THEN scen
                       ELSE [scen EXCEPT !.met = TRUE]
            /\ IF MtimeChanged(state_file.mtime, last_mtime)
               THEN /\ last_mtime' = state_file.mtime
                    /\ LET read == /\ Parsed(state_file.content)
                                    /\ IsObject(state_file.content)
                           st == IF read
                                 THEN ClaudeUpdate(Handle,
                                          StateIsIdle(state_file.content))
                                 ELSE Handle
                       IN /\ is_idle' = st.is_idle
                          /\ notes' = st.notes
                          /\ IF read THEN \E cb \in Callbacks : PollEnds(cb)
                             ELSE poll_error' = "data"
               ELSE /\ UNCHANGED <<last_mtime, is_idle, notes>>
                    /\ NoError
       ELSE /\ UNCHANGED <<scen, last_mtime, is_idle, notes>>
            /\ NoError
    /\ UNCHANGED <<notAgent, kind, now, running, threads, state_file>>
    /\ UNCHANGED <<patternVars, codexVars>>

\* the hook (or any other process) overwrites the state file; the file's
\* mtime is the time of the write
ExternalWrite(content) ==
    /\ NoError
    /\ NotAStart
    /\ NotAPoll
    /\ kind = "claude"
    /\ state_file' = [exists |-> TRUE, mtime |-> now, content |-> content]
    /\ scen' = ScenAfterWrite(content)
    /\ UNCHANGED <<notAgent, kind, now, is_idle, running, threads, notes,
                   last_mtime>>
    /\ UNCHANGED <<patternVars, codexVars>>

\* ------------------------------------------------------------------------
\* Transcript, raw-log and pane-marker strategies (CodexAgent)
\* ------------------------------------------------------------------------
ACTIVE_MARKERS == {"run_turn", "receiving_stream", "ToolCall",
                   "stream_events_utils"}
IDLE_MARKERS == {"close time.busy", "close time.idle"}
SESSION_ACTIVE_EVENT_TYPES == {"agent_reasoning", "agent_message",
                               "command_execution", "tool_call", "tool"}
SESSION_TURN_START_EVENTS == {"turn/started", "item/started", "thread/started"}
SESSION_TURN_END_EVENTS == {"turn/completed", "item/completed", "turn_aborted"}
SESSION_RESPONSE_ITEM_TYPES == {"reasoning", "message", "function_call",
                                "function_call_output", "custom_tool_call",
                                "custom_tool_call_output", "tool_call",
                                "tool_call_output"}

\* the transcript lines the writer may append: a JSON event is
\* [type, ptype] (ptype is payload.type); type "malformed" is a line that
\* json.loads rejects
SessionLines == {[type |-> "event_msg", ptype |-> "turn/started"],
                 [type |-> "event_msg", ptype |-> "turn/completed"],
                 [type |-> "response_item", ptype |-> "function_call"],
                 [type |-> "malformed", ptype |-> ""]}

\* the raw-log lines the writer may append: a line is the set of marker
\* substrings it contains
LogLines == {{"run_turn"}, {"close time.idle"},
             {"ToolCall", "close time.busy"}}

\* What a line is, read off the marker tables alone: an Active marker
\* (turn start or ongoing activity) or a turn-end / idle marker.  The
\* latest poll's batch is summarised with these.
SessionActiveMarker(line) ==
    \/ /\ line.type = "event_msg"
       /\ line.ptype \in SESSION_TURN_START_EVENTS \cup SESSION_ACTIVE_EVENT_TYPES
    \/ /\ line.type = "response_item"
       /\ line.ptype \in SESSION_RESPONSE_ITEM_TYPES
SessionIdleMarker(line) ==
    /\ line.type = "event_msg"
    /\ line.ptype \in SESSION_TURN_END_EVENTS
LogActiveMarker(line) == \E m \in ACTIVE_MARKERS : m \in line
LogIdleMarker(line) ==
    /\ \E m \in IDLE_MARKERS : m \in line
    /\ ~LogActiveMarker(line)

\* CodexAgent._monitor_session, the body of "for line in lines" for one
\* line; acc = [active_seen, idle_seen, activity] (activity is
\* _session_last_activity)
SessionStep(acc, line, t) ==
    IF line.type = "malformed" THEN acc
    ELSE IF line.type = "event_msg"
    THEN IF line.ptype \in SESSION_TURN_START_EVENTS
         THEN [acc EXCEPT !.active_seen = TRUE, !.activity = t]
         ELSE IF line.ptype \in SESSION_TURN_END_EVENTS
         THEN [acc EXCEPT !.idle_seen = TRUE]
         ELSE IF line.ptype \in SESSION_ACTIVE_EVENT_TYPES
         THEN [acc EXCEPT !.active_seen = TRUE, !.activity = t]
         ELSE acc
    ELSE IF line.type = "response_item"
    THEN IF line.ptype \in SESSION_RESPONSE_ITEM_TYPES
         THEN [acc EXCEPT !.active_seen = TRUE, !.activity = t]
         ELSE acc
    ELSE acc

RECURSIVE SessionLoop(_, _, _)
SessionLoop(acc, lines, t) ==
    IF lines = <<>> THEN acc
    ELSE SessionLoop(SessionStep(acc, Head(lines), t), Tail(lines), t)

\* the decision with the turn-end marker winning
SessionDecideIdleFirst(st, acc) ==
    IF acc.idle_seen THEN set_idle(st, TRUE)
    ELSE IF acc.active_seen THEN set_idle(st, FALSE)
    ELSE st

\* CodexAgent._monitor_session, "if idle_seen and not active_seen ... elif
\* active_seen ..." applied to the handle st
SessionDecide(st, acc) ==
    IF acc.idle_seen /\ ~acc.active_seen THEN set_idle(st, TRUE)
    ELSE IF acc.active_seen THEN set_idle(st, FALSE)
    ELSE st

\* "if not self._is_idle: if now - activity >= self.inactivity_timeout"
ActivityTimeout(st, t, activity) ==
    IF ~st.is_idle /\ t - activity >= inactivity_timeout
    THEN set_idle(st, TRUE)
    ELSE st

\* CodexAgent._monitor_log, the body of "for line in lines" for one line;
\* acc = [active_seen, idle_seen, activity, st] (activity is _last_activity)
LogStep(acc, line, t) ==
    IF line \cap ACTIVE_MARKERS # {}
    THEN [acc EXCEPT !.activity = t, !.st = set_idle(acc.st, FALSE),
                     !.active_seen = TRUE]
    ELSE IF line \cap IDLE_MARKERS # {}
    THEN [acc EXCEPT !.idle_seen = TRUE]
    ELSE acc

RECURSIVE LogLoop(_, _, _)
LogLoop(acc, lines, t) ==
    IF lines = <<>> THEN acc
    ELSE LogLoop(LogStep(acc, Head(lines), t), Tail(lines), t)

\* "if idle_seen and not active_seen: self._set_idle(True)"
LogDecide(st, acc) ==
    IF acc.idle_seen /\ ~acc.active_seen THEN set_idle(st, TRUE) ELSE st

\* the check without its reset
OffsetKept(size, position) == position

\* the incremental read both tailing loops make: the offset after the
\* truncation check, and the lines from there to the end of the file
\* (one line is one unit of offset)
OffsetAfterCheck(size, position) == IF size < position THEN 0 ELSE position
NewLines(lines, position) == SubSeq(lines, position + 1, Len(lines))

\* the offset dropped by a poll that found nothing new
OffsetForgotten(size, position) == IF size > position THEN size ELSE 0

\* "if size > position: ... position = handle.tell()": the stored offset
\* at the end of the poll
OffsetAfterRead(size, position) == IF size > position THEN size ELSE position

\* the marker counted as gone on the first capture without it
MarkerGoneAtOnce(t, since) == TRUE

\* "now - self._tmux_missing_since >= self.inactivity_timeout"
MarkerGone(t, since) == t - since >= inactivity_timeout

\* CodexAgent._monitor_tmux_output when the pane could be captured;
\* marker says whether the cleaned, lower-cased text holds
\* "esc to interrupt"
MonitorTmuxOutput(marker) ==
    /\ IF marker
       THEN /\ last_activity' = now
            /\ tmux_marker_seen' = TRUE
            /\ tmux_missing_since' = None
            /\ LET st == set_idle(Handle, FALSE)
               IN is_idle' = st.is_idle /\ notes' = st.notes
       ELSE /\ UNCHANGED last_activity
            /\ IF tmux_marker_seen
               THEN IF tmux_missing_since = None
                    THEN /\ tmux_missing_since' = now
                         /\ UNCHANGED <<tmux_marker_seen, is_idle, notes>>
                    ELSE IF MarkerGone(now, tmux_missing_since)
                    THEN /\ tmux_marker_seen' = FALSE
                         /\ UNCHANGED tmux_missing_since
                         /\ LET st == set_idle(Handle, TRUE)
                            IN is_idle' = st.is_idle /\ notes' = st.notes
                    ELSE UNCHANGED <<tmux_marker_seen, tmux_missing_since,
                                     is_idle, notes>>
               ELSE /\ UNCHANGED <<tmux_marker_seen, tmux_missing_since>>
                    /\ LET st == set_idle(Handle, TRUE)
                       IN is_idle' = st.is_idle /\ notes' = st.notes
    /\ NotAPoll
    /\ UNCHANGED <<session_dir, session_file, session_last_position,
                   session_last_activity, log_file, last_position>>

\* "handle.seek(position); handle.read().splitlines()" over a file that
\* may hold a line written in two writes: [type "partial"] is the
\* beginning of an event_msg line with payload type ptype, [type "rest"]
\* its end; read together they are the line, read apart each is text that
\* json.loads rejects (one write is one unit of offset)
RECURSIVE SplitLines(_)
SplitLines(written) ==
    IF written = <<>> THEN <<>>
    ELSE IF /\ Len(written) >= 2
            /\ written[1].type = "partial"
            /\ written[2].type = "rest"
    THEN <<[type |-> "event_msg", ptype |-> written[1].ptype]>>
             \o SplitLines(Tail(Tail(written)))
    ELSE IF written[1].type \in {"partial", "rest"}
    THEN <<[type |-> "malformed", ptype |-> ""]>> \o SplitLines(Tail(written))
    ELSE <<written[1]>> \o SplitLines(Tail(written))
ReadLines(written, position) == SplitLines(NewLines(written, position))

\* CodexAgent._monitor_session when a session file was found
MonitorSession ==
    LET fresh == session_dir.id # session_file
        size == Len(session_dir.lines)
        pos0 == IF fresh THEN size ELSE session_last_position
        pos == OffsetAfterCheck(size, pos0)
        lines == IF size > pos THEN ReadLines(session_dir.lines, pos) ELSE <<>>
        acc == SessionLoop([active_seen |-> FALSE, idle_seen |-> FALSE,
                            activity |-> session_last_activity], lines, now)
        st1 == SessionDecide(Handle, acc)
        st2 == ActivityTimeout(st1, now, acc.activity)
    IN /\ session_file' = session_dir.id
       /\ session_last_position' = OffsetAfterRead(size, pos)
       /\ session_last_activity' = acc.activity
       /\ is_idle' = st2.is_idle
       /\ notes' = st2.notes
       /\ batch' = [source |-> "session",
                    active |-> \E i \in 1..Len(lines) :
                                  SessionActiveMarker(lines[i]),
                    idle |-> \E i \in 1..Len(lines) :
                                  SessionIdleMarker(lines[i])]
       /\ UNCHANGED <<session_dir, log_file, last_position, last_activity,
                      tmux_marker_seen, tmux_missing_since>>

\* CodexAgent._monitor_log
MonitorLog ==
    IF ~log_file.exists
    THEN /\ NotAPoll
         /\ UNCHANGED <<is_idle, notes, session_dir, session_file,
                        session_last_position, session_last_activity,
                        log_file, last_position, last_activity,
                        tmux_marker_seen, tmux_missing_since>>
    ELSE
    LET size == Len(log_file.lines)
        pos == OffsetAfterCheck(size, last_position)
        lines == IF size > pos THEN NewLines(log_file.lines, pos) ELSE <<>>
        acc == LogLoop([active_seen |-> FALSE, idle_seen |-> FALSE,
                        activity |-> last_activity, st |-> Handle], lines, now)
        st1 == LogDecide(acc.st, acc)
        st2 == ActivityTimeout(st1, now, acc.activity)
    IN /\ last_position' = OffsetAfterRead(size, pos)
       /\ last_activity' = acc.activity
       /\ is_idle' = st2.is_idle
       /\ notes' = st2.notes
       /\ batch' = [source |-> "log",
                    active |-> \E i \in 1..Len(lines) :
                                  LogActiveMarker(lines[i]),
                    idle |-> \E i \in 1..Len(lines) :
                                  LogIdleMarker(lines[i])]
       /\ UNCHANGED <<session_dir, session_file, session_last_position,
                      session_last_activity, log_file,
                      tmux_marker_seen, tmux_missing_since>>

\* what a pane query can give: "none" when there is no tmux manager, the
\* pane is dead or the capture fails; otherwise the marker is in the text
\* or it is not
PaneQueries == {"none", "marker", "clear"}

\* the loop without its "if self._monitor_session(): continue"
SourceLogFirst(pane, found) ==
    IF pane # "none" THEN "pane" ELSE "log"

\* the strategy one iteration of _monitor_activity ends with: the first
\* of _monitor_tmux_output and _monitor_session that returns True, else
\* _monitor_log; found says whether a session file exists
Source(pane, found) ==
    IF pane # "none" THEN "pane"
    ELSE IF found THEN "session"
    ELSE "log"

\* CodexAgent._monitor_activity, one iteration: the pane first, then the
\* session transcript, then the raw log
CodexPoll(pane) ==
    /\ NotAStart
    /\ kind = "codex"
    /\ LoopRuns
    /\ LET source == Source(pane, session_dir.exists)
       IN IF source = "pane" THEN MonitorTmuxOutput(pane = "marker")
          ELSE IF source = "session" THEN MonitorSession
          ELSE MonitorLog
    /\ \E cb \in Callbacks : PollEnds(cb)
    /\ UNCHANGED <<notAgent, kind, now, running, threads>>
    /\ UNCHANGED <<patternVars, sidecarVars>>

\* the Codex process appends one line to its session transcript
AppendSession(line) ==
    /\ NoError
    /\ NotAStart
    /\ NotAPoll
    /\ kind = "codex"
    /\ session_dir.exists
    /\ Len(session_dir.lines) + Len(log_file.lines) < MaxFileLen
    /\ session_dir' = [session_dir EXCEPT !.lines = Append(@, line)]
    /\ UNCHANGED <<notAgent, kind, now, is_idle, running, threads, notes>>
    /\ UNCHANGED <<session_file, session_last_position,
                   session_last_activity, log_file, last_position,
                   last_activity, tmux_marker_seen, tmux_missing_since>>
    /\ UNCHANGED <<patternVars, sidecarVars>>

\* the Codex process appends one line to its TUI log (the log is read
\* only while no session file exists; appends nothing will read are left
\* out)
AppendLog(line) ==
    /\ NoError
    /\ NotAStart
    /\ NotAPoll
    /\ kind = "codex"
    /\ log_file.exists
    /\ ~session_dir.exists
    /\ Len(session_dir.lines) + Len(log_file.lines) < MaxFileLen
    /\ log_file' = [log_file EXCEPT !.lines = Append(@, line)]
    /\ UNCHANGED <<notAgent, kind, now, is_idle, running, threads, notes>>
    /\ UNCHANGED <<session_dir, session_file, session_last_position,
                   session_last_activity, last_position,
                   last_activity, tmux_marker_seen, tmux_missing_since>>
    /\ UNCHANGED <<patternVars, sidecarVars>>

\* what a new session transcript holds when it first becomes the latest
\* file of the session directory
FirstContents == {<<>>} \cup {<<line>> : line \in SessionLines}

\* Codex opens a new session: another rollout-*.jsonl becomes the most
\* recently modified file of the session directory
RotateSession(lines) ==
    /\ NoError
    /\ NotAStart
    /\ NotAPoll
    /\ kind = "codex"
    /\ session_dir.exists
    /\ session_dir.id < MaxFiles
    /\ session_dir' = [session_dir EXCEPT !.id = @ + 1, !.lines = lines]
    /\ UNCHANGED <<notAgent, kind, now, is_idle, running, threads, notes>>
    /\ UNCHANGED <<session_file, session_last_position,
                   session_last_activity, log_file, last_position,
                   last_activity, tmux_marker_seen, tmux_missing_since>>
    /\ UNCHANGED <<patternVars, sidecarVars>>

\* the latest session transcript is emptied; the appends that follow
\* write it anew
TruncateSession ==
    /\ NoError
    /\ NotAStart
    /\ NotAPoll
    /\ kind = "codex"
    /\ session_dir.exists
    /\ session_dir.lines # <<>>
    /\ session_dir' = [session_dir EXCEPT !.lines = <<>>]
    /\ UNCHANGED <<notAgent, kind, now, is_idle, running, threads, notes>>
    /\ UNCHANGED <<session_file, session_last_position,
                   session_last_activity, log_file, last_position,
                   last_activity, tmux_marker_seen, tmux_missing_since>>
    /\ UNCHANGED <<patternVars, sidecarVars>>

\* the TUI log is rotated: an empty file takes its place
TruncateLog ==
    /\ NoError
    /\ NotAStart
    /\ NotAPoll
    /\ kind = "codex"
    /\ log_file.exists
    /\ ~session_dir.exists
    /\ log_file.lines # <<>>
    /\ log_file' = [log_file EXCEPT !.lines = <<>>]
    /\ UNCHANGED <<notAgent, kind, now, is_idle, running, threads, notes>>
    /\ UNCHANGED <<session_dir, session_file, session_last_position,
                   session_last_activity, last_position,
                   last_activity, tmux_marker_seen, tmux_missing_since>>
    /\ UNCHANGED <<patternVars, sidecarVars>>

\* ------------------------------------------------------------------------
\* start_detection, stop_detection, the loop's exit, the clock
\* ------------------------------------------------------------------------
\* start_detection without its guard
NeverRunning(flag) == FALSE

\* "if self._running: return"
AlreadyRunning(flag) == flag

\* "self._running = True; Thread(target=..., daemon=True).start()"
SpawnLoop ==
    /\ threads < MaxThreads
    /\ running' = TRUE
    /\ threads' = threads + 1

\* the step is a call of start_detection that found the running flag
\* `flag`
CountStart(flag) == starts' = IF flag THEN "running" ELSE "stopped"

\* "self._running = False; if self._monitor_thread: join(timeout=2.0)":
\* the join ends because the loop saw the flag and returned (joined), or
\* because the two seconds passed with the loop still in an iteration
StopLoop(joined) ==
    /\ running' = FALSE
    /\ threads' = IF joined /\ threads > 0 THEN threads - 1 ELSE threads

\* GenericAgent.start_detection; the tmux manager was set by
\* AIMonitor.__init__
GenericStart ==
    /\ NoError
    /\ NotAPoll
    /\ kind = "generic"
    /\ CountStart(running)
    /\ IF AlreadyRunning(running) THEN UNCHANGED <<running, threads>>
       ELSE SpawnLoop
    /\ UNCHANGED <<notAgent, kind, now, is_idle, notes>>
    /\ UNCHANGED <<patternVars, sidecarVars, codexVars>>

\* GenericAgent.stop_detection
GenericStop(joined) ==
    /\ NoError
    /\ NotAStart
    /\ NotAPoll
    /\ kind = "generic"
    /\ StopLoop(joined)
    /\ UNCHANGED <<notAgent, kind, now, is_idle, notes>>
    /\ UNCHANGED <<patternVars, sidecarVars, codexVars>>

\* AIMonitor.start (ai_arcade)
LegacyStart ==
    /\ NoError
    /\ NotAPoll
    /\ kind = "legacy"
    /\ CountStart(running)
    /\ IF AlreadyRunning(running) THEN UNCHANGED <<running, threads>>
       ELSE SpawnLoop
    /\ UNCHANGED <<notAgent, kind, now, is_idle, notes>>
    /\ UNCHANGED <<patternVars, sidecarVars, codexVars>>

\* AIMonitor.stop (ai_arcade)
LegacyStop(joined) ==
    /\ NoError
    /\ NotAStart
    /\ NotAPoll
    /\ kind = "legacy"
    /\ StopLoop(joined)
    /\ UNCHANGED <<notAgent, kind, now, is_idle, notes>>
    /\ UNCHANGED <<patternVars, sidecarVars, codexVars>>

\* a start that leaves the state file as it finds it
write_initial_state_skipped(file, t) == file

\* ClaudeCodeAgent._write_initial_state: {"state": "idle", ...} replaces
\* whatever the file held
write_initial_state(file, t) ==
    [exists |-> TRUE, mtime |-> t, content |-> "idle"]

\* ClaudeCodeAgent.start_detection, with _write_initial_state
ClaudeStart ==
    /\ NoError
    /\ NotAPoll
    /\ kind = "claude"
    /\ CountStart(running)
    /\ IF AlreadyRunning(running)
       THEN UNCHANGED <<running, threads, state_file>>
       ELSE /\ state_file' = write_initial_state(state_file, now)
            /\ SpawnLoop
    /\ UNCHANGED <<notAgent, kind, now, is_idle, notes, last_mtime, scen>>
    /\ UNCHANGED <<patternVars, codexVars>>

\* ClaudeCodeAgent.stop_detection: the state file is removed after the join
ClaudeStop(joined) ==
    /\ NoError
    /\ NotAStart
    /\ NotAPoll
    /\ kind = "claude"
    /\ StopLoop(joined)
    /\ state_file' = [state_file EXCEPT !.exists = FALSE]
    /\ scen' = ScenOff
    /\ UNCHANGED <<notAgent, kind, now, is_idle, notes, last_mtime>>
    /\ UNCHANGED <<patternVars, codexVars>>

\* CodexAgent.start_detection, with _prime_log_position and
\* _prime_session_position
CodexStart ==
    /\ NoError
    /\ NotAPoll
    /\ kind = "codex"
    /\ CountStart(running)
    /\ IF AlreadyRunning(running)
       THEN UNCHANGED <<running, threads, last_position, session_file,
                        session_last_position>>
       ELSE /\ last_position' = IF log_file.exists THEN Len(log_file.lines)
                                ELSE last_position
            /\ IF session_dir.exists
               THEN /\ session_file' = session_dir.id
                    /\ session_last_position' = Len(session_dir.lines)
               ELSE UNCHANGED <<session_file, session_last_position>>
            /\ SpawnLoop
    /\ UNCHANGED <<notAgent, kind, now, is_idle, notes>>
    /\ UNCHANGED <<session_dir, session_last_activity, log_file,
                   last_activity, tmux_marker_seen, tmux_missing_since>>
    /\ UNCHANGED <<patternVars, sidecarVars>>

\* CodexAgent.stop_detection
CodexStop(joined) ==
    /\ NoError
    /\ NotAStart
    /\ NotAPoll
    /\ kind = "codex"
    /\ StopLoop(joined)
    /\ UNCHANGED <<notAgent, kind, now, is_idle, notes>>
    /\ UNCHANGED <<patternVars, sidecarVars, codexVars>>

\* "while self._running": a loop that finds the flag false returns and its
\* thread ends
LoopExit ==
    /\ NoError
    /\ NotAStart
    /\ NotAPoll
    /\ threads > 0
    /\ ~running
    /\ threads' = threads - 1
    /\ UNCHANGED <<notAgent, kind, now, is_idle, running, notes>>
    /\ UNCHANGED <<patternVars, sidecarVars, codexVars>>

\* a second passes
Tick ==
    /\ NoError
    /\ NotAStart
    /\ NotAPoll
    /\ now < MaxTime
    /\ now' = now + 1
    /\ UNCHANGED <<notAgent, kind, is_idle, running, threads, notes>>
    /\ UNCHANGED <<patternVars, sidecarVars, codexVars>>

\* the loop without its "except Exception": the thread ends with the
\* exception
LoopDies(n) == n - 1

\* "except Exception as e: print(...); time.sleep(...)" inside "while
\* self._running": the number of loop threads alive after an exception
AfterException(n) == n

\* one iteration that raises before it has changed anything (capture-pane
\* exits non-zero, the file vanishes between exists() and stat(), ...)
PollRaises ==
    /\ NotAStart
    /\ NotAPoll
    /\ kind \in {"generic", "legacy", "claude", "codex"}
    /\ LoopRuns
    /\ poll_error' = "query"
    /\ threads' = AfterException(threads)
    /\ UNCHANGED <<notAgent, kind, now, is_idle, running, notes>>
    /\ UNCHANGED <<patternVars, sidecarVars, codexVars>>

\* ------------------------------------------------------------------------
\* Status bar (TmuxManager) and companion-status loop (AIMonitor)
\* ------------------------------------------------------------------------
\* Python's None, and the value of an unset or empty tmux option
NoValue == ""
GameNames == {"snake", "tetris"}
AgentNames == {"claude_code"}

\* the status bar before update_status_bar has drawn anything
NoBar == [style |-> "default", left |-> "", right |-> <<>>]
NoRender == [by |-> "none", read |-> NoValue, stored |-> NoValue,
             selected |-> NoValue, cmds |-> 0, raised |-> FALSE]

\* get_session_option: the value, or None when the option is empty or the
\* display-message command fails
get_session_option(value, ok) == IF ok THEN value ELSE NoValue

\* two colours only: idle or working
status_color_two(selected, idle) == IF idle THEN "green" ELSE "yellow"

\* update_status_bar: status_color
status_color(selected, idle) ==
    IF selected = NoValue THEN "cyan"
    ELSE IF idle THEN "green" ELSE "yellow"

\* update_status_bar: agent_status
agent_status(selected, idle) ==
    IF selected = NoValue THEN "No agent selected"
    ELSE IF idle THEN "Agent idle" ELSE "Agent working..."

\* update_status_bar: game_status
game_status(game) ==
    IF game # NoValue THEN <<"Playing: ", game>>
    ELSE <<"No game selected">>

\* update_status_bar: nothing when the status bar is disabled; otherwise
\* one display-message and five set-option commands; `sent` is FALSE when
\* the first set-option exits non-zero (check=True raises)
update_status_bar(enabled, selected, idle, game, shown, sent) ==
    IF ~enabled THEN [bar |-> shown, cmds |-> 0, raised |-> FALSE]
    ELSE IF ~sent THEN [bar |-> shown, cmds |-> 2, raised |-> TRUE]
    ELSE [bar |-> [style |-> status_color(selected, idle),
                   left |-> agent_status(selected, idle),
                   right |-> game_status(game)],
          cmds |-> 6, raised |-> FALSE]

\* the value read is re-rendered whatever is stored
GameAlwaysChanged(read, stored) == TRUE

\* _monitor_game_status: "if current_game != self.tmux.current_game"
GameChanged(read, stored) == read # stored

\* AIMonitor.start
MonitorStart ==
    /\ kind = "monitor"
    /\ NoError
    /\ NotAPoll
    /\ CountStart(running)
    /\ IF AlreadyRunning(running) THEN UNCHANGED <<running, threads>>
       ELSE SpawnLoop
    /\ render' = NoRender
    /\ UNCHANGED <<guardVars, supVars, kind, now, is_idle, notes>>
    /\ UNCHANGED <<agent_state_idle, current_game, opt_selected, opt_game,
                   status_bar, calls, bar>>
    /\ UNCHANGED <<patternVars, sidecarVars, codexVars>>

\* AIMonitor.stop
MonitorStop(joined) ==
    /\ kind = "monitor"
    /\ NoError
    /\ NotAStart
    /\ NotAPoll
    /\ StopLoop(joined)
    /\ render' = NoRender
    /\ UNCHANGED <<guardVars, supVars, kind, now, is_idle, notes>>
    /\ UNCHANGED <<agent_state_idle, current_game, opt_selected, opt_game,
                   status_bar, calls, bar>>
    /\ UNCHANGED <<patternVars, sidecarVars, codexVars>>

\* a setter that also resets the other field
set_game_status_both(game, idle) ==
    [current_game |-> game, agent_state_idle |-> TRUE]

\* TmuxManager.set_game_status, "self.current_game = game_name": the two
\* status fields after the call (idle is agent_state_idle before it)
set_game_status(game, idle) ==
    [current_game |-> game, agent_state_idle |-> idle]

\* _monitor_game_loop, one iteration: _monitor_game_status reads
\* @current-game and calls set_game_status when the value differs; an
\* exception of the re-render is swallowed by "except Exception: pass"
GamePoll(ok, sent) ==
    /\ kind = "monitor"
    /\ NotAStart
    /\ NotAPoll
    /\ LoopRuns
    /\ LET read == get_session_option(opt_game, ok)
           selected == get_session_option(opt_selected, ok)
           u == update_status_bar(status_bar, selected, agent_state_idle,
                                  read, bar, sent)
       IN IF GameChanged(read, current_game)
          THEN /\ LET set == set_game_status(read, agent_state_idle)
                  IN /\ current_game' = set.current_game
                     /\ agent_state_idle' = set.agent_state_idle
               /\ bar' = u.bar
               /\ render' = [by |-> "game", read |-> read,
                             stored |-> current_game,
                             selected |-> selected, cmds |-> 1 + u.cmds,
                             raised |-> u.raised]
               /\ poll_error' = IF u.raised THEN "query" ELSE "none"
          ELSE /\ UNCHANGED <<current_game, agent_state_idle, bar>>
               /\ render' = [by |-> "game", read |-> read,
                             stored |-> current_game,
                             selected |-> NoValue, cmds |-> 1,
                             raised |-> FALSE]
               /\ NoError
    /\ UNCHANGED <<guardVars, supVars, kind, now, running, threads,
                   is_idle, notes>>
    /\ UNCHANGED <<opt_selected, opt_game, status_bar, calls>>
    /\ UNCHANGED <<patternVars, sidecarVars, codexVars>>

\* _on_agent_state_changed, invoked by the agent's detection loop on a
\* change of its flag: set_agent_state stores it and re-renders
AgentStateChanged(ok, sent) ==
    /\ kind = "monitor"
    /\ NotAStart
    /\ NotAPoll
    /\ running
    /\ LET selected == get_session_option(opt_selected, ok)
           u == update_status_bar(status_bar, selected, ~agent_state_idle,
                                  current_game, bar, sent)
       IN /\ agent_state_idle' = ~agent_state_idle
          /\ bar' = u.bar
          /\ render' = [by |-> "agent", read |-> NoValue,
                        stored |-> current_game,
                        selected |-> selected, cmds |-> u.cmds,
                        raised |-> u.raised]
          /\ poll_error' = IF u.raised THEN "callback" ELSE "none"
    /\ UNCHANGED <<guardVars, supVars, kind, now, running, threads,
                   is_idle, notes>>
    /\ UNCHANGED <<current_game, opt_selected, opt_game, status_bar, calls>>
    /\ UNCHANGED <<patternVars, sidecarVars, codexVars>>

\* the agent menu sets or clears @selected-agent; the game runner sets or
\* clears @current-game
SetOptions(agent, game) ==
    /\ kind = "monitor"
    /\ NoError
    /\ NotAStart
    /\ NotAPoll
    /\ opt_selected' = agent
    /\ opt_game' = game
    /\ render' = NoRender
    /\ UNCHANGED <<guardVars, supVars, kind, now, running, threads,
                   is_idle, notes>>
    /\ UNCHANGED <<agent_state_idle, current_game, status_bar, calls, bar>>
    /\ UNCHANGED <<patternVars, sidecarVars, codexVars>>

\* the variables of the restart guard and of the supervisor while the
\* specification at hand is about something else
NoExit == 0 - 1
GuardAbsent ==
    /\ g_pc = "absent" /\ clock = 0 /\ start = 0 /\ fast_count = 0
    /\ crash_env = FALSE /\ crash_file = "" /\ g_session = "none"
    /\ g_exit = NoExit /\ runs = <<>> /\ shells = <<>>
SupervisorAbsent ==
    /\ pc = "absent" /\ mon_pc = "absent"
    /\ ai_failures = 0 /\ game_failures = 0 /\ stop_event = FALSE
    /\ session = "none" /\ exit_code = NoExit /\ interrupted = FALSE
    /\ ai_hist = <<>> /\ game_hist = <<>>
    /\ printed = [stream |-> "none", text |-> <<>>] /\ kills = 0
    /\ created = [called |-> FALSE] /\ pane_q = [ai |-> "none"]
StatusAbsent ==
    /\ agent_state_idle = TRUE /\ current_game = NoValue
    /\ opt_selected = NoValue /\ opt_game = NoValue
    /\ status_bar = FALSE /\ bar = NoBar /\ render = NoRender
    /\ calls = <<>>
HandleAbsent ==
    /\ kind = "absent" /\ now = 1 /\ is_idle = TRUE /\ running = FALSE
    /\ threads = 0 /\ notes = <<>> /\ starts = NoCall
    /\ last_output = <<>> /\ last_change_time = 1
    /\ result = [polled |-> FALSE, is_ready |-> FALSE, idle |-> FALSE,
                 confidence |-> 0, since |-> 0]
    /\ state_file = [exists |-> FALSE, mtime |-> 0, content |-> "idle"]
    /\ last_mtime = 0 /\ scen = ScenOff
    /\ session_dir = [exists |-> FALSE, id |-> None, lines |-> <<>>]
    /\ session_file = None /\ session_last_position = 0
    /\ session_last_activity = 1
    /\ log_file = [exists |-> FALSE, lines |-> <<>>]
    /\ last_position = 0 /\ last_activity = 1
    /\ tmux_marker_seen = FALSE /\ tmux_missing_since = None
    /\ batch = NoBatch /\ poll_error = "none"
AgentAbsent ==
    /\ HandleAbsent
    /\ StatusAbsent

\* ------------------------------------------------------------------------
\* Spec: one agent handle
\* ------------------------------------------------------------------------
Kinds == {"generic", "legacy", "claude", "codex", "monitor"}

Init ==
    /\ kind \in Kinds
    /\ now = 1
    /\ is_idle = (kind # "legacy")
    /\ running = FALSE
    /\ threads = 0
    /\ notes = <<>>
    /\ starts = NoCall
    /\ last_output = <<>>
    /\ last_change_time = 1
    /\ result = [polled |-> FALSE, is_ready |-> FALSE, idle |-> FALSE,
                 confidence |-> 0, since |-> 0]
    /\ state_file = [exists |-> FALSE, mtime |-> 0, content |-> "idle"]
    /\ last_mtime = 0
    /\ scen = ScenOff
    /\ session_dir \in {[exists |-> e, id |-> IF e THEN 1 ELSE None,
                          lines |-> <<>>] : e \in {kind = "codex", FALSE}}
    /\ session_file = None
    /\ session_last_position = 0
    /\ session_last_activity = 1
    /\ log_file \in {[exists |-> e, lines |-> <<>>] :
                          e \in {kind = "codex", session_dir.exists}}
    /\ last_position = 0
    /\ last_activity = 1
    /\ tmux_marker_seen = FALSE
    /\ tmux_missing_since = None
    /\ batch = NoBatch
    /\ poll_error = "none"
    /\ agent_state_idle = TRUE
    /\ current_game = NoValue
    /\ opt_selected = NoValue
    /\ opt_game = NoValue
    /\ status_bar \in {kind = "monitor", FALSE}
    /\ calls = <<>>
    /\ bar = update_status_bar(status_bar, NoValue, TRUE, NoValue, NoBar,
                               TRUE).bar
    /\ render = NoRender
    /\ GuardAbsent
    /\ SupervisorAbsent

Next ==
    \/ Tick
    \/ LoopExit
    \/ GenericStart
    \/ \E joined \in BOOLEAN : GenericStop(joined)
    \/ \E output \in Texts : GenericPoll(output)
    \/ LegacyStart
    \/ \E joined \in BOOLEAN : LegacyStop(joined)
    \/ \E output \in Texts : LegacyPoll(output)
    \/ ClaudeStart
    \/ \E joined \in BOOLEAN : ClaudeStop(joined)
    \/ ClaudePoll
    \/ \E content \in Contents : ExternalWrite(content)
    \/ CodexStart
    \/ \E joined \in BOOLEAN : CodexStop(joined)
    \/ \E pane \in PaneQueries : CodexPoll(pane)
    \/ \E line \in SessionLines : AppendSession(line)
    \/ \E line \in LogLines : AppendLog(line)
    \/ MonitorStart
    \/ \E joined \in BOOLEAN : MonitorStop(joined)
    \/ \E ok, sent \in BOOLEAN : GamePoll(ok, sent)
    \/ \E ok, sent \in BOOLEAN : AgentStateChanged(ok, sent)
    \/ \E agent \in {NoValue} \cup AgentNames,
          game \in {NoValue} \cup GameNames : SetOptions(agent, game)

Spec == Init /\ [][Next]_vars

\* Spec with iterations that raise before they have changed anything
NextFaulty ==
    \/ Next
    \/ PollRaises

SpecFaulty == Init /\ [][NextFaulty]_vars

\* SpecCodex: a CodexAgent that was given no tmux manager (self.tmux is
\* None, as constructed), so that every poll reads a file, while Codex
\* appends to its files, opens new sessions and has its files truncated
InitCodex ==
    /\ Init
    /\ kind = "codex"

NextCodex ==
    \/ Tick
    \/ CodexStart
    \/ CodexStop(TRUE)
    \/ CodexPoll("none")
    \/ \E line \in SessionLines : AppendSession(line)
    \/ \E line \in LogLines : AppendLog(line)
    \/ \E lines \in FirstContents : RotateSession(lines)
    \/ TruncateSession
    \/ TruncateLog

SpecCodex == InitCodex /\ [][NextCodex]_vars

\* SpecWriter: a CodexAgent without tmux manager tailing the session
\* transcript while Codex writes to it; a line reaches the file in one
\* write or in two, and the writer is followed only from start_detection on
WriterAppends(written) ==
    /\ NoError
    /\ NotAStart
    /\ NotAPoll
    /\ kind = "codex"
    /\ running
    /\ session_dir.exists
    /\ Len(session_dir.lines) < MaxFileLen
    /\ session_dir.lines # <<>> =>
           (session_dir.lines[Len(session_dir.lines)].type = "partial"
               <=> written.type = "rest")
    /\ session_dir.lines = <<>> => written.type # "rest"
    /\ written.type = "rest" =>
           written.ptype = session_dir.lines[Len(session_dir.lines)].ptype
    /\ written.type = "partial" =>
           Len(session_dir.lines) + 1 < MaxFileLen
    /\ session_dir' = [session_dir EXCEPT !.lines = Append(@, written)]
    /\ UNCHANGED <<notAgent, kind, now, is_idle, running, threads, notes>>
    /\ UNCHANGED <<session_file, session_last_position,
                   session_last_activity, log_file, last_position,
                   last_activity, tmux_marker_seen, tmux_missing_since>>
    /\ UNCHANGED <<patternVars, sidecarVars>>

\* what one write may hold: a whole line, or one part of an event_msg line
Writes ==
    SessionLines
    \cup {[type |-> part, ptype |-> ptype] :
             part \in {"partial", "rest"},
             ptype \in {"turn/started", "turn/completed"}}

\* CodexAgent._monitor_activity, one iteration that reads the transcript
WriterPoll ==
    /\ NotAStart
    /\ kind = "codex"
    /\ LoopRuns
    /\ Source("none", session_dir.exists) = "session"
    /\ MonitorSession
    /\ \E cb \in Callbacks : PollEnds(cb)
    /\ UNCHANGED <<notAgent, kind, now, running, threads>>
    /\ UNCHANGED <<patternVars, sidecarVars>>

InitWriter ==
    /\ Init
    /\ kind = "codex"
    /\ session_dir.exists

NextWriter ==
    \/ Tick
    \/ CodexStart
    \/ WriterPoll
    \/ \E written \in Writes : WriterAppends(written)

SpecWriter == InitWriter /\ [][NextWriter]_vars

\* SpecLive: a CodexAgent with a tmux manager whose loop, once started,
\* is never stopped.  The loop thread is scheduled again and again and the
\* clock advances (up to MaxTime), hence the two fairness conditions; what
\* a pane query gives is open on every iteration
InitLive ==
    /\ Init
    /\ kind = "codex"

NextLive ==
    \/ Tick
    \/ CodexStart
    \/ \E pane \in PaneQueries : CodexPoll(pane)
    \/ \E line \in SessionLines : AppendSession(line)
    \/ \E line \in LogLines : AppendLog(line)

SpecLive ==
    /\ InitLive
    /\ [][NextLive]_vars
    /\ WF_vars(Tick)
    /\ WF_vars(\E pane \in PaneQueries : CodexPoll(pane))

\* the handle is Active, its loop polls, and every timer the strategies
\* keep has run out: no source has seen an activity marker for
\* inactivity_timeout, and a pane marker once seen has been missing for
\* as long
ActiveWithoutActivity ==
    /\ kind = "codex"
    /\ ~is_idle
    /\ LoopRuns
    /\ InactivityElapsed(now - last_activity)
    /\ InactivityElapsed(now - session_last_activity)
    /\ tmux_marker_seen =>
           /\ tmux_missing_since # None
           /\ MarkerGone(now, tmux_missing_since)

\* C39: Codex detection never stays Active forever without activity:
\* from an Active state in which no source has seen an activity marker for
\* inactivity_timeout, with the loop polling, the handle eventually becomes
\* Idle unless a source observes a marker again, whichever sources are
\* available.
C39_EventuallyIdle ==
    ActiveWithoutActivity ~> (is_idle \/ ~ActiveWithoutActivity)

\* SpecStatus: the AIMonitor of Spec on its own
InitStatus ==
    /\ Init
    /\ kind = "monitor"

NextStatus ==
    \/ Tick
    \/ LoopExit
    \/ MonitorStart
    \/ \E joined \in BOOLEAN : MonitorStop(joined)
    \/ \E ok, sent \in BOOLEAN : GamePoll(ok, sent)
    \/ \E ok, sent \in BOOLEAN : AgentStateChanged(ok, sent)
    \/ \E agent \in {NoValue} \cup AgentNames,
          game \in {NoValue} \cup GameNames : SetOptions(agent, game)

SpecStatus == InitStatus /\ [][NextStatus]_vars

\* SpecDirect: the AIMonitor in the direct-launch flow of run_with_agent.
\* _configure_session has set @selected-agent to ""; the agent menu, the
\* only writer of a name into that option, is not part of this flow, so
\* the game runner's @current-game is the only option that changes
InitDirect ==
    /\ Init
    /\ kind = "monitor"
    /\ opt_selected = NoValue

NextDirect ==
    \/ Tick
    \/ LoopExit
    \/ MonitorStart
    \/ \E joined \in BOOLEAN : MonitorStop(joined)
    \/ \E ok, sent \in BOOLEAN : GamePoll(ok, sent)
    \/ \E ok, sent \in BOOLEAN : AgentStateChanged(ok, sent)
    \/ \E game \in {NoValue} \cup GameNames : SetOptions(opt_selected, game)

SpecDirect == InitDirect /\ [][NextDirect]_vars

\* C40: in the direct-launch flow, once the agent has been launched, every
\* status-bar render shows the agent's readiness: green while the handle is
\* idle, yellow while it is active, never the cyan no-agent-selected state.
C40_RenderShowsReadiness ==
    (render.by \in {"agent", "game"} /\ render.cmds = 6) =>
        /\ bar.style = IF agent_state_idle THEN "green" ELSE "yellow"
        /\ bar.left # "No agent selected"

\* ------------------------------------------------------------------------
\* SpecBar: set_agent_state, called by the readiness callback on the
\* detection thread, and set_game_status, called by the companion-status
\* loop, on the one TmuxManager; each tmux command of update_status_bar is
\* a step of its own, and no lock is held across them
\* ------------------------------------------------------------------------
BarThreads == {"agent", "game"}

\* a thread that is not inside a call; inside one, at is "compute",
\* "style" or "format" and drawn holds the status_color, agent_status and
\* game_status the call has computed
NoBarCall == [at |-> "idle", drawn |-> NoBar]

\* the variables SpecBar leaves alone
barIdle == <<kind, now, is_idle, running, threads, notes, starts,
             patternVars, sidecarVars, codexVars, batch, poll_error,
             opt_selected, status_bar, render, guardVars, supVars>>

\* _on_agent_state_changed -> set_agent_state: "self.agent_state_idle =
\* is_idle"; the callback is invoked on a change of the handle's flag
BarAgentStores ==
    /\ calls["agent"].at = "idle"
    /\ agent_state_idle' = ~agent_state_idle
    /\ calls' = [calls EXCEPT !["agent"].at = "compute"]
    /\ UNCHANGED <<current_game, opt_game, bar, barIdle>>

\* _monitor_game_status -> set_game_status: @current-game is read and,
\* when it differs, "self.current_game = game_name"
BarGameStores ==
    /\ calls["game"].at = "idle"
    /\ LET read == get_session_option(opt_game, TRUE)
       IN /\ GameChanged(read, current_game)
          /\ current_game' =
                 set_game_status(read, agent_state_idle).current_game
    /\ calls' = [calls EXCEPT !["game"].at = "compute"]
    /\ UNCHANGED <<agent_state_idle, opt_game, bar, barIdle>>

\* update_status_bar up to its first set-option: @selected-agent is read,
\* then the two fields, and the colour and the two texts are computed
BarComputes(thread) ==
    /\ calls[thread].at = "compute"
    /\ LET selected == get_session_option(opt_selected, TRUE)
           u == update_status_bar(status_bar, selected, agent_state_idle,
                                  current_game, bar, TRUE)
       IN calls' = [calls EXCEPT ![thread] = [at |-> "style",
                                              drawn |-> u.bar]]
    /\ UNCHANGED <<agent_state_idle, current_game, opt_game, bar, barIdle>>

\* "set-option status-style bg=<status_color>,fg=black,bold"
BarSendsStyle(thread) ==
    /\ calls[thread].at = "style"
    /\ bar' = [bar EXCEPT !.style = calls[thread].drawn.style]
    /\ calls' = [calls EXCEPT ![thread].at = "format"]
    /\ UNCHANGED <<agent_state_idle, current_game, opt_game, barIdle>>

\* "set-option status-format[1] ..." with both texts, then the three
\* window-status options; the call returns
BarSendsFormat(thread) ==
    /\ calls[thread].at = "format"
    /\ bar' = [bar EXCEPT !.left = calls[thread].drawn.left,
                          !.right = calls[thread].drawn.right]
    /\ calls' = [calls EXCEPT ![thread] = NoBarCall]
    /\ UNCHANGED <<agent_state_idle, current_game, opt_game, barIdle>>

\* the game runner sets or clears @current-game
BarGameRunnerSets(game) ==
    /\ opt_game # game
    /\ opt_game' = game
    /\ UNCHANGED <<agent_state_idle, current_game, bar, calls, barIdle>>

\* an attached session with the status bar enabled and drawn; an agent is
\* selected or not
InitBar ==
    /\ HandleAbsent
    /\ agent_state_idle = TRUE /\ current_game = NoValue
    /\ opt_selected \in {NoValue} \cup AgentNames
    /\ opt_game = NoValue
    /\ status_bar = TRUE
    /\ bar = update_status_bar(TRUE, opt_selected, TRUE, NoValue, NoBar,
                               TRUE).bar
    /\ render = NoRender
    /\ calls = [thread \in BarThreads |-> NoBarCall]
    /\ GuardAbsent
    /\ SupervisorAbsent

NextBar ==
    \/ BarAgentStores
    \/ BarGameStores
    \/ \E thread \in BarThreads : BarComputes(thread)
    \/ \E thread \in BarThreads : BarSendsStyle(thread)
    \/ \E thread \in BarThreads : BarSendsFormat(thread)
    \/ \E game \in {NoValue} \cup GameNames : BarGameRunnerSets(game)

SpecBar == InitBar /\ [][NextBar]_vars

\* C35: when the readiness callback and the companion-status loop call
\* update_status_bar concurrently, then once both calls have finished the
\* status style and the status line shown are those of the final values
\* of agent_state_idle and current_game.
C35_BarMatchesFields ==
    (\A thread \in BarThreads : calls[thread].at = "idle") =>
        bar = [style |-> status_color(opt_selected, agent_state_idle),
               left |-> agent_status(opt_selected, agent_state_idle),
               right |-> game_status(current_game)]

\* SpecInFlight: the GenericAgent of Spec with the iteration that is in
\* flight when a join times out.  Spec places the effects of an iteration
\* at its start, hence before a stop_detection call the iteration
\* straddles; here a loop thread that outlived the join (the flag is
\* false, the thread is alive) ends its iteration after stop_detection has
\* returned, and then leaves "while self._running".
GenericPollInFlight(output) ==
    /\ NotAStart
    /\ NotAPoll
    /\ kind = "generic"
    /\ ~running
    /\ threads > 0
    /\ Len(notes) < MaxNotes
    /\ GenericIteration(output)
    /\ threads' = threads - 1
    /\ UNCHANGED <<notAgent, kind, now, running>>
    /\ UNCHANGED <<sidecarVars, codexVars>>

InitInFlight ==
    /\ Init
    /\ kind = "generic"

NextInFlight ==
    \/ Tick
    \/ LoopExit
    \/ GenericStart
    \/ \E joined \in BOOLEAN : GenericStop(joined)
    \/ \E output \in Texts : GenericPoll(output)
    \/ \E output \in Texts : GenericPollInFlight(output)

SpecInFlight == InitInFlight /\ [][NextInFlight]_vars

\* SpecSidecar: the ClaudeCodeAgent of Spec on its own, with the hook that
\* writes the state file
InitSidecar ==
    /\ Init
    /\ kind = "claude"

NextSidecar ==
    \/ Tick
    \/ LoopExit
    \/ ClaudeStart
    \/ \E joined \in BOOLEAN : ClaudeStop(joined)
    \/ ClaudePoll
    \/ \E content \in Contents : ExternalWrite(content)

SpecSidecar == InitSidecar /\ [][NextSidecar]_vars

\* ------------------------------------------------------------------------
\* Properties of the agent handles (Spec)
\* ------------------------------------------------------------------------
\* C1: for GenericAgent, ClaudeCodeAgent and CodexAgent, on_state_change
\* is called exactly once for each change of the idle flag, with the new
\* value, and never by a poll that observes the current state: starting
\* from Idle, the calls made so far alternate False, True, False, ... and
\* the flag is the value of the latest call.
C1_OncePerChange ==
    kind \in {"generic", "claude", "codex"} =>
        /\ \A i \in 1..Len(notes) : notes[i] = (i % 2 = 0)
        /\ is_idle = (Len(notes) % 2 = 0)

\* C1: a handle went Active and back to Idle, two calls
C1_Witness ==
    /\ kind \in {"generic", "claude", "codex"}
    /\ notes = <<FALSE, TRUE>>
    /\ is_idle

\* C2: in the pattern strategy, a poll on which a ready pattern occurs in
\* the cleaned pane text yields Idle with confidence 1.0, whatever the
\* inactivity timer says.
C2_PatternMatchIsIdle ==
    LET text == strip_ansi_codes(last_output)
        matched == \E k \in 1..Len(ready_patterns) :
                      \E i \in 1..Len(text) :
                         /\ i + Len(ready_patterns[k]) - 1 <= Len(text)
                         /\ \A j \in 1..Len(ready_patterns[k]) :
                               text[i + j - 1] = ready_patterns[k][j]
    IN (kind \in {"generic", "legacy"} /\ result.polled /\ matched) =>
          /\ result.is_ready
          /\ result.idle
          /\ result.confidence = 100
          /\ is_idle

\* C2: a poll matched the pattern in a capture that holds an escape
\* sequence and is longer than the pattern, the timer just restarted
C2_Witness ==
    /\ kind = "generic"
    /\ result.polled /\ result.is_ready /\ result.idle
    /\ result.confidence = 100
    /\ result.since = 0
    /\ Len(last_output) > 2
    /\ \E i \in 1..Len(last_output) : last_output[i] = "E"

\* C3 as stated: only a poll on which the cleaned text differs from the
\* previous snapshot restarts the inactivity timer.
C3_Original ==
    [][(kind \in {"generic", "legacy"}
          /\ last_change_time' # last_change_time)
        => strip_ansi_codes(last_output') # strip_ansi_codes(last_output)]_vars

\* C3, amended: when no ready pattern matches, the poll yields Idle if the
\* captured text, escape sequences included, has been the same for at
\* least inactivity_timeout seconds and Active otherwise; the confidence
\* 0.7 is reported by AIMonitor._monitor_loop only (GenericAgent reports
\* the flag alone); the timer restarts exactly on a poll whose captured
\* text differs from the previous snapshot.
C3_Amended ==
    [][(kind \in {"generic", "legacy"} =>
        /\ (result'.polled /\ ~result'.is_ready) =>
              /\ result'.idle <=> (result'.since >= inactivity_timeout)
              /\ result'.confidence =
                     IF kind = "legacy" /\ result'.idle THEN 70 ELSE 0
        /\ (last_change_time' # last_change_time) =>
              /\ last_output' # last_output
              /\ last_change_time' = now
        /\ (last_output' # last_output) => last_change_time' = now
        /\ (result' # result) => result'.since = now - last_change_time'
      )]_vars

\* C3: a poll without a match found the text unchanged for the timeout
C3_Witness ==
    /\ kind \in {"generic", "legacy"}
    /\ result.polled /\ ~result.is_ready /\ result.idle
    /\ result.since >= inactivity_timeout

\* C4: with ClaudeCodeAgent detection running and the handle Idle, the
\* state file overwritten with busy and later with idle, each overwrite
\* with a new mtime and each met by a poll, gives exactly two calls of
\* on_state_change: False, then True.
C4_BusyThenIdle ==
    (kind = "claude" /\ scen.met) =>
        /\ scen.phase = "busy" =>
              /\ notes = Append(SubSeq(notes, 1, scen.n), FALSE)
              /\ ~is_idle
        /\ scen.phase = "idle" =>
              /\ notes = SubSeq(notes, 1, scen.n) \o <<FALSE, TRUE>>
              /\ is_idle

\* C4: both overwrites were made and met by a poll
C4_Witness ==
    /\ kind = "claude"
    /\ scen.phase = "idle" /\ scen.met
    /\ state_file.content = "idle"
    /\ Len(notes) = scen.n + 2

\* C5: a batch read by the transcript or by the raw-log strategy that
\* holds an Active marker leaves the handle Active, a turn-end / idle
\* marker in the same batch notwithstanding, in either order; a batch
\* with turn-end / idle markers only leaves it Idle.
C5_ActiveWins ==
    (kind = "codex" /\ batch.source \in {"session", "log"}) =>
        /\ batch.active => ~is_idle
        /\ (batch.idle /\ ~batch.active) => is_idle

\* C5: one transcript batch held an Active and a turn-end marker
C5_Witness ==
    /\ kind = "codex"
    /\ batch.source = "session"
    /\ batch.active /\ batch.idle
    /\ ~is_idle

\* C6: start_detection called while detection runs starts no thread and
\* changes no state of the handle; a stop_detection call returns with the
\* running flag cleared and no thread added.
C6_StartIdempotent ==
    [][(
       /\ (starts' # NoCall /\ running) =>
             /\ starts' = "running"
             /\ threads' = threads
             /\ running' = running
             /\ <<is_idle, notes, now>>' = <<is_idle, notes, now>>
             /\ patternVars' = patternVars
             /\ sidecarVars' = sidecarVars
             /\ codexVars' = codexVars
       /\ (starts' # NoCall /\ ~running) =>
             /\ starts' = "stopped"
             /\ threads' = threads + 1
             /\ running'
       /\ (running /\ ~running') => threads' <= threads
      )]_vars

\* C6: a second start_detection found detection running, one loop runs
C6_Witness ==
    /\ starts = "running"
    /\ running
    /\ threads = 1

\* C21: on each poll of the Codex loop at most one of the three sources
\* (pane text, session transcript, raw log) reads data or changes the
\* handle, in strict priority: a poll of the transcript leaves the pane
\* source's and the raw log's variables alone, a poll of the raw log is made
\* only when no session file exists and leaves the pane source's and the
\* transcript's variables alone, and a poll on which the pane source acts
\* reads no file and moves no cursor
C21_OneSource ==
    [][(
        /\ batch'.source = "session" =>
              /\ session_dir.exists
              /\ UNCHANGED <<tmux_marker_seen, tmux_missing_since,
                             last_activity, last_position>>
        /\ batch'.source = "log" =>
              /\ ~session_dir.exists
              /\ log_file.exists
              /\ UNCHANGED <<tmux_marker_seen, tmux_missing_since,
                             session_file, session_last_position,
                             session_last_activity>>
        /\ <<tmux_marker_seen, tmux_missing_since>>'
               # <<tmux_marker_seen, tmux_missing_since>> =>
              /\ batch' = NoBatch
              /\ UNCHANGED <<session_file, session_last_position,
                             session_last_activity, last_position>>
        /\ (kind = "codex" /\ is_idle' # is_idle /\ batch' = NoBatch) =>
              UNCHANGED <<session_file, session_last_position,
                          session_last_activity, last_position>>
      )]_vars

\* C21: the pane source had seen its marker, then the pane could not be
\* queried and, no session file existing, the raw log was read
C21_Witness ==
    /\ batch.source = "log"
    /\ batch.active
    /\ tmux_marker_seen

\* C23: in the Codex pane-text source, a poll whose capture holds "esc to
\* interrupt" sets the handle Active and clears the absence timer; once the
\* marker has been seen, the first poll without it starts the timer and
\* leaves the state alone, and a poll without it turns the handle Idle only
\* when the marker has been absent since the timer's start for at least
\* inactivity_timeout; the timer, once started, runs on until the marker
\* reappears.
C23_PaneMarker ==
    [][(
        (kind = "codex" /\ batch' = NoBatch) =>
          \* the marker was captured
          /\ (\/ ~tmux_marker_seen /\ tmux_marker_seen'
              \/ tmux_missing_since # None /\ tmux_missing_since' = None) =>
                /\ ~is_idle'
                /\ tmux_marker_seen'
                /\ tmux_missing_since' = None
                /\ last_activity' = now
          \* the first capture without it
          /\ (tmux_missing_since = None /\ tmux_missing_since' # None) =>
                /\ tmux_marker_seen /\ tmux_marker_seen'
                /\ tmux_missing_since' = now
                /\ is_idle' = is_idle
          \* the timer runs on
          /\ (tmux_missing_since # None /\ tmux_missing_since' # None) =>
                tmux_missing_since' = tmux_missing_since
          \* Idle after the timeout only
          /\ (tmux_marker_seen /\ ~is_idle /\ is_idle') =>
                /\ tmux_missing_since # None
                /\ now - tmux_missing_since >= inactivity_timeout
                /\ ~tmux_marker_seen'
          /\ (tmux_marker_seen /\ ~tmux_marker_seen') =>
                /\ is_idle'
                /\ tmux_missing_since # None
                /\ now - tmux_missing_since >= inactivity_timeout
      )]_vars

\* C23: the marker was seen, then missed for the whole timeout: the pane
\* source turned the handle Idle
C23_Witness ==
    /\ kind = "codex"
    /\ batch = NoBatch
    /\ poll_error = "none"
    /\ ~tmux_marker_seen
    /\ tmux_missing_since # None
    /\ now - tmux_missing_since >= inactivity_timeout
    /\ is_idle
    /\ Len(notes) = 2

\* C24: in the transcript strategy, when the handle is Active and the batch
\* read on a poll holds neither an Active nor a turn-end marker, the handle
\* becomes Idle on that poll exactly when at least inactivity_timeout has
\* passed since the transcript strategy last saw an Active marker, and
\* stays Active before that.  (Files only grow here, so a marker the
\* strategy has seen is a line of the file before its cursor.)
C24_TranscriptTimeout ==
    [][(
        (/\ kind = "codex"
         /\ batch'.source = "session"
         /\ ~batch'.active /\ ~batch'.idle
         /\ ~is_idle) =>
          LET seen == \E i \in 1..session_last_position :
                         SessionActiveMarker(session_dir.lines[i])
          IN is_idle' <=>
               /\ seen
               /\ now - session_last_activity >= inactivity_timeout
      )]_vars

\* C38: in the layered Codex strategy the handle goes from Active to Idle
\* only on a batch with idle markers and no active markers, on the pane
\* marker having been absent for at least inactivity_timeout, or when at
\* least inactivity_timeout has passed since the most recent activity
\* marker any source has seen (the later of the two activity stamps); a
\* change of the driving source alone does not force Idle.
C38_IdleOnlyOnEvidence ==
    [][(
        (kind = "codex" /\ ~is_idle /\ is_idle') =>
            \/ batch'.idle /\ ~batch'.active
            \/ /\ tmux_missing_since # None
               /\ now - tmux_missing_since >= inactivity_timeout
            \/ /\ now - last_activity' >= inactivity_timeout
               /\ now - session_last_activity' >= inactivity_timeout
       )]_vars

\* C25: a transcript poll that finds another session file to be the latest
\* one sets the read offset to that file's current size, so that none of
\* the content it already holds is classified; a poll that finds the same
\* file smaller than the stored offset resets the offset to 0 and reads the
\* whole file again.
C25_RotationAndTruncation ==
    [][(
        (kind = "codex" /\ batch'.source = "session") =>
          LET size == Len(session_dir.lines)
              fresh == session_dir.id # session_file
              whole == session_dir.lines
          IN /\ fresh =>
                  /\ session_file' = session_dir.id
                  /\ session_last_position' = size
                  /\ ~batch'.active /\ ~batch'.idle
                  /\ session_last_activity' = session_last_activity
                  /\ is_idle' # is_idle =>
                        /\ is_idle'
                        /\ now - session_last_activity >= inactivity_timeout
             /\ (~fresh /\ size < session_last_position) =>
                  /\ session_file' = session_file
                  /\ session_last_position' = size
                  /\ batch'.active <=>
                        \E i \in 1..size : SessionActiveMarker(whole[i])
                  /\ batch'.idle <=>
                        \E i \in 1..size : SessionIdleMarker(whole[i])
      )]_vars

\* C25: an Active line was read, the file was emptied and written anew
\* with one turn-end line: the poll read that line from offset 0
C25_Witness ==
    /\ kind = "codex"
    /\ batch.source = "session"
    /\ batch.idle
    /\ notes = <<FALSE, TRUE>>
    /\ session_file = 1
    /\ Len(session_dir.lines) = 1
    /\ session_last_position = 1

\* C26 as stated: a poll lowers the stored offset of the transcript or of
\* the raw log only when it detects a truncation or a rotation, and then
\* it leaves the offset at 0
C26_Original ==
    [][(
        /\ (/\ batch'.source = "session"
            /\ session_last_position' < session_last_position) =>
              /\ \/ session_dir.id # session_file
                 \/ Len(session_dir.lines) < session_last_position
              /\ session_last_position' = 0
        /\ (/\ batch'.source = "log"
            /\ last_position' < last_position) =>
              /\ Len(log_file.lines) < last_position
              /\ last_position' = 0
      )]_vars

\* C26, amended: the stored offsets of the transcript and of the raw log
\* never decrease, except (a) on a poll that finds the file smaller than
\* the offset: reading restarts at 0 and the offset ends at the file's
\* size; (b) on a transcript poll that finds another session file to be
\* the latest: the offset becomes that file's size; (c) when
\* start_detection primes both offsets with the sizes of the files.
C26_Amended ==
    [][(
        /\ session_last_position' < session_last_position =>
              /\ session_last_position' = Len(session_dir.lines)
              /\ \/ /\ batch'.source = "session"
                    /\ session_dir.id = session_file
                    /\ Len(session_dir.lines) < session_last_position
                 \/ /\ batch'.source = "session"
                    /\ session_dir.id # session_file
                 \/ /\ starts' # NoCall
                    /\ ~running /\ running'
        /\ last_position' < last_position =>
              /\ last_position' = Len(log_file.lines)
              /\ \/ /\ batch'.source = "log"
                    /\ Len(log_file.lines) < last_position
                 \/ /\ starts' # NoCall
                    /\ ~running /\ running'
        /\ (batch'.source = "session" /\ session_dir.id = session_file
            /\ Len(session_dir.lines) >= session_last_position) =>
              session_last_position' = Len(session_dir.lines)
        /\ (batch'.source = "log"
            /\ Len(log_file.lines) >= last_position) =>
              last_position' = Len(log_file.lines)
      )]_vars

\* C26: the handle was Active and had read two lines when a new session
\* file holding one turn-end line became the latest: the poll moved the
\* offset from 2 to 1 and classified nothing
C26_Witness ==
    /\ kind = "codex"
    /\ batch.source = "session"
    /\ ~batch.active /\ ~batch.idle
    /\ session_file = 2
    /\ session_last_position = 1
    /\ Len(session_dir.lines) = 1
    /\ SessionIdleMarker(session_dir.lines[1])
    /\ ~is_idle

\* C27: for every sequence of start_detection / stop_detection calls, a
\* stop whose join timed out followed by a start included, at most one
\* detection-loop thread of a handle runs at any time (so that the idle
\* flag has one writer).
C27_OneLoop ==
    (kind \in {"generic", "claude", "codex"}) => threads <= 1

C34_QuietAfterStop ==
    [][(
        (~running /\ ~running') =>
            /\ notes' = notes
            /\ is_idle' = is_idle
       )]_vars

\* C37: every complete event line appended to the transcript after
\* detection started is classified exactly once, also when a poll read
\* the file while the line was partly written: the poll that reads the end
\* of an Active line, the beginning of which an earlier poll had read,
\* classifies the line (its batch holds an Active marker).
C37_ClassifiedOnce ==
    [][(
        (/\ batch'.source = "session"
         /\ session_file = session_dir.id
         /\ session_last_position >= 1
         /\ session_last_position < Len(session_dir.lines)
         /\ session_dir.lines[session_last_position].type = "partial"
         /\ session_dir.lines[session_last_position + 1].type = "rest"
         /\ session_dir.lines[session_last_position].ptype
                \in SESSION_TURN_START_EVENTS) =>
            /\ batch'.active
            /\ ~is_idle'
       )]_vars

\* C13: an exception raised during one poll of a detection loop or of the
\* companion-status loop (a failed tmux query, a missing file, malformed
\* data, an exception thrown by the state-change callback) never ends the
\* loop: while the run flag is set a loop thread is alive, also right
\* after a poll that ended in an exception.
C13_LoopSurvives ==
    /\ running => threads > 0
    /\ poll_error # "none" => (running /\ threads > 0)

\* C13: the poll of a running Codex loop raised before it changed
\* anything; the loop thread is still there
C13_Witness ==
    /\ kind = "codex"
    /\ poll_error = "query"
    /\ running
    /\ threads = 1

C19_RenderOnChange ==
    render.by = "game" =>
        /\ render.read = render.stored =>
              (render.cmds = 1 /\ current_game = render.stored)
        /\ render.cmds > 1 => render.read # render.stored
        /\ render.read # render.stored =>
              (current_game = render.read /\ (status_bar => render.cmds > 1))

\* C19: the loop read the game it already shows; only the query was issued
C19_Witness ==
    /\ render.by = "game"
    /\ status_bar
    /\ render.read = "snake"
    /\ render.stored = "snake"
    /\ render.cmds = 1
    /\ bar.right = <<"Playing: ", "snake">>

\* C20: when the sidecar file holds text that is not valid JSON the handle
\* keeps its flag, invokes no callback and goes on polling; a JSON object
\* without a "state" key is read as idle; and the file is re-read only
\* when its mtime differs from the last one seen, so without a change of
\* mtime neither the flag nor the notifications change.
C20_SidecarParsing ==
    [][(
        kind = "claude" =>
            /\ last_mtime' # last_mtime =>
                  /\ state_file.exists
                  /\ state_file.mtime # last_mtime
                  /\ last_mtime' = state_file.mtime
                  /\ state_file.content = "malformed" =>
                        /\ is_idle' = is_idle
                        /\ notes' = notes
                        /\ running' = running
                        /\ threads' = threads
                  /\ state_file.content = "nokey" => is_idle'
                  /\ state_file.content \in {"idle", "busy"} =>
                        (is_idle' <=> state_file.content = "idle")
            /\ last_mtime' = last_mtime =>
                  (is_idle' = is_idle /\ notes' = notes)
       )]_vars

\* C20: the hook's busy state was followed by a write that is not JSON;
\* the poll that met it left the handle Active, with its one notification
C20_Witness ==
    /\ kind = "claude"
    /\ poll_error = "data"
    /\ state_file.exists
    /\ state_file.content = "malformed"
    /\ last_mtime = state_file.mtime
    /\ running
    /\ threads = 1
    /\ ~is_idle
    /\ notes = <<FALSE>>

\* ------------------------------------------------------------------------
\* SpecGuard: the restart guard shell of TmuxManager._wrap_restart_command
\*   while true; do clear; start=$(date +%s); <command>; end=$(date +%s);
\*     runtime=$((end-start)); ...; sleep 1; done
\* ------------------------------------------------------------------------
\* date +%s: the clock, truncated to whole seconds
Date(t) == t \div TicksPerSecond

\* the counter without its "else fast_count=0"
NextFastCountNoReset(count, runtime) ==
    IF runtime < FastWindow THEN count + 1 ELSE count

\* "if [ $runtime -lt 5 ]; then fast_count=$((fast_count+1));
\*  else fast_count=0; fi"
NextFastCount(count, runtime) ==
    IF runtime < FastWindow THEN count + 1 ELSE 0

\* "if [ $fast_count -ge 2 ]"
CrashLoop(count) == count >= FastThreshold

\* the crash message printf writes
CrashMessage ==
    "Exiting app because <crash_label> crashed. This might happen if <crash_subject> is not installed or needs to be upgraded."

\* the latest FastThreshold - 1 runs, to which the next one is appended
RecentRuns == IF Len(runs) < FastThreshold THEN runs ELSE Tail(runs)

GuardTick ==
    /\ g_pc \in {"loop", "command", "sleep", "crashed"}
    /\ clock < MaxGuardSeconds * TicksPerSecond
    /\ clock' = clock + 1
    /\ UNCHANGED <<g_pc, start, fast_count, crash_env, crash_file,
                   g_session, g_exit, runs>>
    /\ UNCHANGED <<agentVars, supVars, shells>>

\* "clear; start=$(date +%s); <command>": the command begins
GuardRun ==
    /\ g_pc = "loop"
    /\ start' = Date(clock)
    /\ runs' = Append(RecentRuns, [s |-> clock, e |-> clock])
    /\ g_pc' = "command"
    /\ UNCHANGED <<clock, fast_count, crash_env, crash_file, g_session,
                   g_exit>>
    /\ UNCHANGED <<agentVars, supVars, shells>>

\* the command exits: "end=$(date +%s); runtime=$((end-start))", the
\* counter, and on a crash loop the message to the crash file
GuardCommandExit ==
    /\ g_pc = "command"
    /\ LET end == Date(clock)
           runtime == end - start
           count == NextFastCount(fast_count, runtime)
       IN /\ fast_count' = count
          /\ IF CrashLoop(count)
             THEN /\ crash_file' = IF crash_env THEN CrashMessage
                                   ELSE crash_file
                  /\ g_pc' = "crashed"
             ELSE /\ UNCHANGED crash_file
                  /\ g_pc' = "sleep"
    /\ runs' = [runs EXCEPT ![Len(runs)].e = clock]
    /\ UNCHANGED <<clock, start, crash_env, g_session, g_exit>>
    /\ UNCHANGED <<agentVars, supVars, shells>>

\* "sleep 2; tmux kill-session -t <session>; exit 1"
GuardTeardown ==
    /\ g_pc = "crashed"
    /\ g_session' = "killed"
    /\ g_exit' = 1
    /\ g_pc' = "exited"
    /\ UNCHANGED <<clock, start, fast_count, crash_env, crash_file, runs>>
    /\ UNCHANGED <<agentVars, supVars, shells>>

\* the shell without its trap: SIGINT ends it
sigint_default(at) == "interrupted"

\* "trap \"\" INT": what SIGINT does to the shell that is at `at`
sigint_ignored(at) == at

\* Ctrl+C in the pane: SIGINT reaches the wrapper shell (and the command,
\* whose exit is GuardCommandExit)
GuardSigint ==
    /\ g_pc \in {"loop", "command", "sleep", "crashed"}
    /\ g_pc' = sigint_ignored(g_pc)
    /\ UNCHANGED <<clock, start, fast_count, crash_env, crash_file,
                   g_session, g_exit, runs>>
    /\ UNCHANGED <<agentVars, supVars, shells>>

\* "sleep 1; done"
GuardSleepDone ==
    /\ g_pc = "sleep"
    /\ g_pc' = "loop"
    /\ UNCHANGED <<clock, start, fast_count, crash_env, crash_file,
                   g_session, g_exit, runs>>
    /\ UNCHANGED <<agentVars, supVars, shells>>

InitGuard ==
    /\ g_pc = "loop"
    /\ clock = 0
    /\ start = 0
    /\ fast_count = 0
    /\ crash_env \in BOOLEAN
    /\ crash_file = ""
    /\ g_session = "alive"
    /\ g_exit = NoExit
    /\ runs = <<>>
    /\ shells = <<>>
    /\ AgentAbsent
    /\ SupervisorAbsent

NextGuard ==
    \/ GuardTick
    \/ GuardRun
    \/ GuardCommandExit
    \/ GuardTeardown
    \/ GuardSleepDone
    \/ GuardSigint

SpecGuard == InitGuard /\ [][NextGuard]_vars

\* ------------------------------------------------------------------------
\* Properties of the restart guard (SpecGuard)
\* ------------------------------------------------------------------------
\* C7 as stated: the guard tears the session down exactly when the command
\* has exited in under 5 seconds (of wall-clock time) on two consecutive
\* iterations.
C7_Original ==
    (g_pc \in {"loop", "sleep", "crashed", "exited"}) =>
        ((g_pc \in {"crashed", "exited"}) <=>
            /\ Len(runs) = FastThreshold
            /\ \A i \in 1..Len(runs) :
                  runs[i].e - runs[i].s < FastWindow * TicksPerSecond)

\* C7, amended: the guard tears the session down (kills the tmux session,
\* exits with status 1) exactly when, on two consecutive iterations, the
\* whole-second timestamps (date +%s) taken before and after the command
\* differ by less than 5; such an iteration ran for less than 5 seconds of
\* wall-clock time, but a run of 4 to 5 seconds that crosses five second
\* boundaries counts as slow.  An iteration that runs 5 seconds or more
\* resets the counter to 0, and fast exits separated by a slow run do not
\* accumulate.
C7_Amended ==
    /\ (g_pc \in {"loop", "sleep", "crashed", "exited"}) =>
          /\ (g_pc \in {"crashed", "exited"}) <=>
                /\ Len(runs) = FastThreshold
                /\ \A i \in 1..Len(runs) :
                      (runs[i].e \div TicksPerSecond)
                         - (runs[i].s \div TicksPerSecond) < FastWindow
          /\ (g_pc \in {"crashed", "exited"}) =>
                \A i \in 1..Len(runs) :
                   runs[i].e - runs[i].s < FastWindow * TicksPerSecond
          /\ (runs # <<>> /\ runs[Len(runs)].e - runs[Len(runs)].s
                                >= FastWindow * TicksPerSecond)
                => fast_count = 0
    /\ (g_pc = "exited") <=> (g_session = "killed")
    /\ (g_pc = "exited") <=> (g_exit = 1)
    /\ (g_pc # "exited") => (g_exit = NoExit /\ g_session = "alive")
    /\ (crash_file # "") <=> (crash_env /\ g_pc \in {"crashed", "exited"})

\* C7: two fast exits in a row: the crash file is written, the session
\* killed, the shell gone with status 1
C7_Witness ==
    /\ g_pc = "exited"
    /\ g_session = "killed"
    /\ g_exit = 1
    /\ crash_file # ""
    /\ fast_count = FastThreshold

\* C28: when the wrapped command exits and the crash threshold is not
\* reached the guard goes on to run the command again (sleep 1, clear, the
\* command), whatever made the command exit, Ctrl+C included: SIGINT does
\* not end the wrapper, which ends only through the crash-threshold
\* teardown (session killed, exit 1).
C28_AlwaysRelaunched ==
    [][(
        /\ (g_pc = "command" /\ g_pc' # "command") =>
              g_pc' = IF CrashLoop(fast_count') THEN "crashed" ELSE "sleep"
        /\ (g_pc = "sleep" /\ g_pc' # "sleep") =>
              /\ g_pc' = "loop"
              /\ fast_count' = fast_count
        /\ (g_pc = "loop" /\ g_pc' # "loop") => g_pc' = "command"
        /\ (g_pc = "crashed" /\ g_pc' # "crashed") => g_pc' = "exited"
        /\ g_pc' \notin {"loop", "command", "sleep", "crashed"} =>
              /\ g_pc' = "exited"
              /\ CrashLoop(fast_count')
              /\ g_session' = "killed"
              /\ g_exit' = 1
      )]_vars

\* C28: the command exited fast once and is running again
C28_Witness ==
    /\ g_pc = "command"
    /\ Len(runs) = 2
    /\ fast_count = 1

\* ------------------------------------------------------------------------
\* SpecPanes: the two panes of one session.  launch_ai_agent and
\* launch_game_runner both wrap their command with _wrap_restart_command,
\* so each pane runs a guard shell of its own, and both shells were given
\* the same crash file (when the TmuxManager was given one).  A run of the command is summarised by how long it
\* lasted.
\* ------------------------------------------------------------------------
Panes == {"ai", "game"}

\* the read without its "crash_file.unlink()"
read_crash_file_kept(file) == [file |-> file, message |-> file]

\* "message = crash_file.read_text().strip(); crash_file.unlink()": what is
\* left of the file and the message (the newline printf appended is
\* stripped)
read_crash_file(file) == [file |-> "", message |-> file]

\* a pane whose command was not launched yet
NoShell == [at |-> "none", fast_count |-> 0, wrote |-> FALSE]

\* the message of a pane's guard: crash_label is the agent's command for
\* the AI pane and "Game runner" for the game pane
PaneMessage(pane) ==
    IF pane = "game"
    THEN "Exiting app because Game runner crashed. This might happen if the game runner is not installed or needs to be upgraded."
    ELSE CrashMessage

\* $runtime of one run: below the window or not
Runtimes == {0, FastWindow}

\* the guard's variables SpecPanes does not use
paneIdle == <<g_pc, clock, start, fast_count, crash_env, g_exit, runs>>

\* run_with_agent: "tmux.launch_ai_agent(...)", then
\* "tmux.launch_game_runner()": respawn-pane with the wrapped command
PaneLaunch(pane) ==
    /\ g_session = "alive"
    /\ shells[pane].at = "none"
    /\ pane = "game" => shells["ai"].at # "none"
    /\ shells' = [shells EXCEPT ![pane].at = "loop"]
    /\ UNCHANGED <<crash_file, g_session, paneIdle>>
    /\ UNCHANGED <<agentVars, supVars>>

\* "clear; start=$(date +%s); <command>"
PaneRun(pane) ==
    /\ g_session = "alive"
    /\ shells[pane].at = "loop"
    /\ shells' = [shells EXCEPT ![pane].at = "command"]
    /\ UNCHANGED <<crash_file, g_session, paneIdle>>
    /\ UNCHANGED <<agentVars, supVars>>

\* the command of the pane exits after runtime seconds: the counter, and
\* on a crash loop the message to the crash file
PaneCommandExit(pane, runtime) ==
    /\ g_session = "alive"
    /\ shells[pane].at = "command"
    /\ LET count == NextFastCount(shells[pane].fast_count, runtime)
       IN IF CrashLoop(count)
          THEN /\ crash_file' = IF crash_env THEN PaneMessage(pane)
                                 ELSE crash_file
               /\ shells' = [shells EXCEPT ![pane] =
                                [at |-> "crashed", fast_count |-> count,
                                 wrote |-> crash_env]]
          ELSE /\ UNCHANGED crash_file
               /\ shells' = [shells EXCEPT ![pane].at = "sleep",
                                           ![pane].fast_count = count]
    /\ UNCHANGED <<g_session, paneIdle>>
    /\ UNCHANGED <<agentVars, supVars>>

\* "sleep 1; done"
PaneSleepDone(pane) ==
    /\ g_session = "alive"
    /\ shells[pane].at = "sleep"
    /\ shells' = [shells EXCEPT ![pane].at = "loop"]
    /\ UNCHANGED <<crash_file, g_session, paneIdle>>
    /\ UNCHANGED <<agentVars, supVars>>

\* "sleep 2; tmux kill-session -t <session>; exit 1": the session ends and
\* with it the shell of the other pane
PaneTeardown(pane) ==
    /\ g_session = "alive"
    /\ shells[pane].at = "crashed"
    /\ g_session' = "killed"
    /\ shells' = [q \in Panes |->
                    IF q = pane THEN [shells[q] EXCEPT !.at = "exited"]
                    ELSE IF shells[q].at = "none" THEN shells[q]
                    ELSE [shells[q] EXCEPT !.at = "killed"]]
    /\ UNCHANGED <<crash_file, paneIdle>>
    /\ UNCHANGED <<agentVars, supVars>>

\* the session is killed from outside the panes (the exit key, the
\* supervisor's cleanup, its pane-health loop): every guard shell ends
PanesSessionKilled ==
    /\ g_session = "alive"
    /\ g_session' = "killed"
    /\ shells' = [q \in Panes |->
                    IF shells[q].at = "none" THEN shells[q]
                    ELSE [shells[q] EXCEPT !.at = "killed"]]
    /\ UNCHANGED <<crash_file, paneIdle>>
    /\ UNCHANGED <<agentVars, supVars>>

\* attach-session has returned: run_with_agent reads the crash file,
\* unlinks it and prints the message to stderr
PanesCrashRead ==
    /\ g_session = "killed"
    /\ crash_file # ""
    /\ LET read == read_crash_file(crash_file)
       IN /\ printed' = [stream |-> "stderr", text |-> <<read.message>>]
          /\ crash_file' = read.file
    /\ UNCHANGED <<pc, mon_pc, ai_failures, game_failures, stop_event,
                   session, exit_code, interrupted, ai_hist, game_hist,
                   kills, created, pane_q>>
    /\ UNCHANGED <<g_session, shells, paneIdle>>
    /\ UNCHANGED agentVars

InitPanes ==
    /\ g_pc = "absent" /\ clock = 0 /\ start = 0 /\ fast_count = 0
    /\ crash_env \in BOOLEAN /\ g_exit = NoExit /\ runs = <<>>
    /\ crash_file = ""
    /\ g_session = "alive"
    /\ shells = [pane \in Panes |-> NoShell]
    /\ AgentAbsent
    /\ SupervisorAbsent

NextPanes ==
    \/ \E pane \in Panes : PaneLaunch(pane)
    \/ \E pane \in Panes : PaneRun(pane)
    \/ \E pane \in Panes, runtime \in Runtimes :
          PaneCommandExit(pane, runtime)
    \/ \E pane \in Panes : PaneSleepDone(pane)
    \/ \E pane \in Panes : PaneTeardown(pane)
    \/ PanesSessionKilled
    \/ PanesCrashRead

SpecPanes == InitPanes /\ [][NextPanes]_vars

\* C29: the crash file has a single producer: during one run at most one
\* restart-guard shell ever writes to it.
C29_SingleProducer ==
    Cardinality({pane \in DOMAIN shells : shells[pane].wrote}) <= 1

\* ------------------------------------------------------------------------
\* SpecLauncher: the wrapper loop of the AI pane in the menu flow
\* (_wrap_agent_launcher), the agent selector menu it runs, the agent
\* launcher it starts and the tmux option @selected-agent between them
\* ------------------------------------------------------------------------
\* exit statuses of the menu command: a clean exit, Ctrl+C, a failure
MenuExits == {0, 130, 1}

\* the wrapper shell before respawn-pane has started it: where it is,
\* $exit_code, $selected, and the counts of the menus shown, of the
\* selections made in them and of the agents launched
NoWrapper == [at |-> "none", exit_code |-> NoExit, selected |-> NoValue,
              menus |-> 0, picks |-> 0, launches |-> 0]

\* an unset that leaves the option as it is
unset_option_kept(value) == value

\* "tmux set-option -t <session> -u @selected-agent"
unset_option(value) == NoValue

\* 'selected=$(tmux show-options -t <session> -v @selected-agent || echo "")'
show_option(value) == value

\* 'if [ -n "$selected" ]; then ... fi; done': where the wrapper goes once
\* the menu has exited with status code; $exit_code is assigned and never
\* tested
after_menu(code, selected) ==
    IF selected # NoValue THEN "agent" ELSE "top"

\* the variables SpecLauncher leaves alone
launcherIdle == <<kind, now, is_idle, running, threads, notes, starts,
                  patternVars, sidecarVars, codexVars, batch, poll_error,
                  current_game, opt_game, status_bar, calls, crash_file, paneIdle,
                  supVars>>

\* launch_agent_runner: respawn-pane starts the wrapper in the AI pane
WrapperLaunch ==
    /\ g_session = "alive"
    /\ shells["ai"].at = "none"
    /\ shells' = [shells EXCEPT !["ai"].at = "top"]
    /\ render' = NoRender
    /\ UNCHANGED <<opt_selected, agent_state_idle, bar, g_session,
                   launcherIdle>>

\* "while true; do tmux set-option -u @selected-agent; clear; <menu>"
WrapperShowsMenu ==
    /\ g_session = "alive"
    /\ shells["ai"].at = "top"
    /\ shells["ai"].menus < MaxRounds
    /\ opt_selected' = unset_option(opt_selected)
    /\ shells' = [shells EXCEPT !["ai"].at = "menu",
                                !["ai"].menus = @ + 1]
    /\ render' = NoRender
    /\ UNCHANGED <<agent_state_idle, bar, g_session, launcherIdle>>

\* AgentSelectorScreen.on_item_selected: the option is set and the menu
\* exits with status 0
MenuSelects(agent) ==
    /\ g_session = "alive"
    /\ shells["ai"].at = "menu"
    /\ opt_selected' = agent
    /\ shells' = [shells EXCEPT !["ai"].at = "read",
                                !["ai"].exit_code = 0,
                                !["ai"].picks = @ + 1]
    /\ render' = NoRender
    /\ UNCHANGED <<agent_state_idle, bar, g_session, launcherIdle>>

\* the menu ends without a selection: it is quit, interrupted, or it fails
MenuExitsUnselected(code) ==
    /\ g_session = "alive"
    /\ shells["ai"].at = "menu"
    /\ shells' = [shells EXCEPT !["ai"].at = "read",
                                !["ai"].exit_code = code]
    /\ render' = NoRender
    /\ UNCHANGED <<opt_selected, agent_state_idle, bar, g_session,
                   launcherIdle>>

\* "exit_code=$?; selected=$(...); if [ -n "$selected" ]; then clear;
\* poetry run python -m agent_arcade.agent_launcher "$selected"": the
\* launcher (agent_launcher.main) sets agent_state_idle on a TmuxManager of
\* its own and draws the status bar before it starts the agent
WrapperReads ==
    /\ g_session = "alive"
    /\ shells["ai"].at = "read"
    /\ LET selected == show_option(opt_selected)
           to == after_menu(shells["ai"].exit_code, selected)
           u == update_status_bar(status_bar,
                                  get_session_option(opt_selected, TRUE),
                                  TRUE, NoValue, bar, TRUE)
       IN /\ shells' = [shells EXCEPT
                           !["ai"].at = to,
                           !["ai"].selected = selected,
                           !["ai"].launches =
                               IF to = "agent" THEN @ + 1 ELSE @]
          /\ IF to = "agent"
             THEN /\ agent_state_idle' = TRUE
                  /\ bar' = u.bar
                  /\ render' = [by |-> "launcher", read |-> NoValue,
                                stored |-> NoValue,
                                selected |-> opt_selected,
                                cmds |-> u.cmds, raised |-> u.raised]
             ELSE /\ UNCHANGED <<agent_state_idle, bar>>
                  /\ render' = NoRender
    /\ UNCHANGED <<opt_selected, g_session, launcherIdle>>

\* while the agent runs, the AIMonitor of the launcher reports a change of
\* its readiness: set_agent_state
LauncherStateChanged ==
    /\ g_session = "alive"
    /\ shells["ai"].at = "agent"
    /\ LET selected == get_session_option(opt_selected, TRUE)
           u == update_status_bar(status_bar, selected, ~agent_state_idle,
                                  NoValue, bar, TRUE)
       IN /\ agent_state_idle' = ~agent_state_idle
          /\ bar' = u.bar
          /\ render' = [by |-> "agent", read |-> NoValue,
                        stored |-> NoValue, selected |-> selected,
                        cmds |-> u.cmds, raised |-> u.raised]
    /\ UNCHANGED <<opt_selected, shells, g_session, launcherIdle>>

\* the agent exits, the launcher with it: "tmux set-option -u
\* @selected-agent"
WrapperClears ==
    /\ g_session = "alive"
    /\ shells["ai"].at = "agent"
    /\ opt_selected' = unset_option(opt_selected)
    /\ shells' = [shells EXCEPT !["ai"].at = "refresh"]
    /\ render' = NoRender
    /\ UNCHANGED <<agent_state_idle, bar, g_session, launcherIdle>>

\* "poetry run python -m agent_arcade.update_status || true; fi; done":
\* update_status.main draws the bar from a TmuxManager of its own
\* (agent_state_idle True, current_game None)
WrapperRefreshes ==
    /\ g_session = "alive"
    /\ shells["ai"].at = "refresh"
    /\ LET selected == get_session_option(opt_selected, TRUE)
           u == update_status_bar(status_bar, selected, TRUE, NoValue,
                                  bar, TRUE)
       IN /\ agent_state_idle' = TRUE
          /\ bar' = u.bar
          /\ render' = [by |-> "update_status", read |-> NoValue,
                        stored |-> NoValue, selected |-> selected,
                        cmds |-> u.cmds, raised |-> u.raised]
    /\ shells' = [shells EXCEPT !["ai"].at = "top"]
    /\ UNCHANGED <<opt_selected, g_session, launcherIdle>>

\* the exit key binding runs kill-session: the pane and its wrapper end
LauncherSessionKilled ==
    /\ g_session = "alive"
    /\ shells["ai"].at # "none"
    /\ g_session' = "killed"
    /\ shells' = [shells EXCEPT !["ai"].at = "killed"]
    /\ render' = NoRender
    /\ UNCHANGED <<opt_selected, agent_state_idle, bar, launcherIdle>>

\* the session as create_session leaves it: _configure_session has set
\* @selected-agent to "" and drawn the status bar, where the configuration
\* enables it
InitLauncher ==
    /\ HandleAbsent
    /\ agent_state_idle = TRUE /\ current_game = NoValue
    /\ opt_selected = NoValue /\ opt_game = NoValue
    /\ status_bar \in BOOLEAN
    /\ calls = <<>>
    /\ bar = update_status_bar(status_bar, NoValue, TRUE, NoValue, NoBar,
                               TRUE).bar
    /\ render = NoRender
    /\ g_pc = "absent" /\ clock = 0 /\ start = 0 /\ fast_count = 0
    /\ crash_env = FALSE /\ g_exit = NoExit /\ runs = <<>>
    /\ crash_file = ""
    /\ g_session = "alive"
    /\ shells = [pane \in {"ai"} |-> NoWrapper]
    /\ SupervisorAbsent

NextLauncher ==
    \/ WrapperLaunch
    \/ WrapperShowsMenu
    \/ \E agent \in AgentNames : MenuSelects(agent)
    \/ \E code \in MenuExits : MenuExitsUnselected(code)
    \/ WrapperReads
    \/ LauncherStateChanged
    \/ WrapperClears
    \/ WrapperRefreshes
    \/ LauncherSessionKilled

SpecLauncher == InitLauncher /\ [][NextLauncher]_vars

\* C31: the option @selected-agent is cleared after it was consumed: it is
\* unset whenever the wrapper shows the menu, it is unset again after the
\* launched agent has exited and before the status bar is redrawn (so the
\* redraw shows no agent selected), and no selection launches an agent
\* more than once.
C31_ClearedAfterConsumption ==
    /\ shells["ai"].at \in {"menu", "refresh", "top"} => opt_selected = NoValue
    /\ render.by = "update_status" =>
           /\ render.selected = NoValue
           /\ status_bar => bar.style = "cyan"
    /\ shells["ai"].launches <= shells["ai"].picks
    /\ shells["ai"].at = "agent" => shells["ai"].selected = opt_selected

\* C31: a second menu is shown after an agent was launched and has exited
C31_Witness ==
    /\ shells["ai"].at = "menu"
    /\ shells["ai"].menus = 2
    /\ shells["ai"].launches = 1

\* C32: a menu that exits with status 130, or with no agent selected, has
\* the wrapper end the application: the wrapper's next step leaves the
\* loop or ends the session.
C32_MenuExitEndsApp ==
    [][(
        /\ shells["ai"].at = "read"
        /\ opt_selected = NoValue
        /\ shells'["ai"].at # "read"
       ) => shells'["ai"].at \in {"exited", "killed"}]_vars

\* ------------------------------------------------------------------------
\* SpecSupervisor: cli.main / run_with_agent and the pane-health thread
\* ------------------------------------------------------------------------
\* what the supervisor wrote to its terminal last
NothingPrinted == [stream |-> "none", text |-> <<>>]
ErrorPrinted == [stream |-> "stderr", text |-> <<"Error">>]
ExitingPrinted == [stream |-> "stdout", text |-> <<"Exiting Agent Arcade">>]

\* _is_tmux_available: "tmux -V" with check=True; CalledProcessError and
\* FileNotFoundError are both answered with False
TmuxProbes == {"ok", "CalledProcessError", "FileNotFoundError"}
is_tmux_available(probe) == probe = "ok"

\* no platform-specific hint
install_hint_none(system) == ""

\* TmuxManager.__init__: the hint for platform.system().lower()
Systems == {"darwin", "linux", "windows"}
install_hint(system) ==
    IF system = "darwin" THEN "Install tmux with: brew install tmux"
    ELSE IF system = "linux"
    THEN "Install tmux with: sudo apt-get install tmux (Debian/Ubuntu) or sudo yum install tmux (RHEL/CentOS)"
    ELSE "Install tmux with your system package manager."

\* the lines of the RuntimeError of TmuxManager.__init__
TmuxRequired(system) ==
    << "tmux is required but not installed.",
       install_hint(system),
       "After installing tmux, re-run agent-arcade." >>

\* cleanup() / TmuxManager.kill_session: "tmux kill-session", check=False
kill_session(sess) == IF sess = "none" THEN "none" ELSE "killed"

\* a cleanup that issues no command
cleanup_skipped(s) == s

\* cleanup(): "try: tmux.kill_session() except: pass", on the supervisor's
\* [session, kills]
cleanup(s) == [session |-> kill_session(s.session), kills |-> s.kills + 1]

\* the except block, the finally block and the atexit hook each run cleanup()
CleanupOnError(s) == cleanup(cleanup(cleanup(s)))

\* the finally block and the atexit hook
CleanupOnReturn(s) == cleanup(cleanup(s))

\* the handler exiting with the status of an interrupted command
signal_handler_130(sess) ==
    [session |-> kill_session(sess), exit_code |-> 130]

\* signal_handler: "cleanup(); sys.exit(0)"
signal_handler(sess) == [session |-> kill_session(sess), exit_code |-> 0]

\* main(): "except KeyboardInterrupt: ... sys.exit(0)"
main_interrupted == 0

\* the tmux server's view of the configured session name: which sessions
\* carry it, the windows of the session, the root-table key bindings
NoServer == [sessions |-> {}, windows |-> {}, bindings |-> {}]
StaleServer == [sessions |-> {"stale"}, windows |-> {0}, bindings |-> {}]

\* create_session leaving a session of the same name in place
keep_existing_session(srv) == [server |-> srv, log |-> <<>>]

\* _kill_session_if_exists: "has-session" answering 0 is followed by
\* kill_session()
kill_session_if_exists(srv) ==
    IF srv.sessions # {}
    THEN [server |-> NoServer, log |-> <<"has-session", "kill-session">>]
    ELSE [server |-> srv, log |-> <<"has-session">>]

\* the tmux commands of create_session and _configure_session after the
\* kill, in order ("options": mouse, status and user options; "mouse": the
\* second "mouse on"); each runs with check=True
Commands == << "new-session", "new-window", "options", "bind-toggle",
               "mouse", "bind-exit" >>

\* what a successful command does to the server
Effect(cmd, srv) ==
    IF cmd = "new-session"
    THEN [sessions |-> {"ours"}, windows |-> {0}, bindings |-> {}]
    ELSE IF cmd = "new-window"
    THEN [srv EXCEPT !.windows = @ \cup {1}]
    ELSE IF cmd = "bind-toggle"
    THEN [srv EXCEPT !.bindings = @ \cup {"toggle"}]
    ELSE IF cmd = "bind-exit"
    THEN [srv EXCEPT !.bindings = @ \cup {"exit"}]
    ELSE srv

\* commands i.. of create_session; the command named by fail exits non-zero,
\* and so does new-session when the name is taken: CalledProcessError
RECURSIVE RunCommands(_, _, _)
RunCommands(st, i, fail) ==
    IF i > Len(Commands) \/ st.raised THEN st
    ELSE LET cmd == Commands[i]
             fails == \/ cmd = fail
                      \/ cmd = "new-session" /\ st.server.sessions # {}
         IN RunCommands([server |-> IF fails THEN st.server
                                    ELSE Effect(cmd, st.server),
                         log |-> Append(st.log, cmd),
                         raised |-> fails],
                        i + 1, fail)

\* create_session(working_dir) against a server that holds (stale) or does
\* not hold a session of the configured name
create_session(stale, fail) ==
    LET k == kill_session_if_exists(IF stale THEN StaleServer ELSE NoServer)
    IN RunCommands([server |-> k.server, log |-> k.log, raised |-> FALSE],
                   1, fail)

NotCreated ==
    [called |-> FALSE, stale |-> FALSE, fail |-> "none", raised |-> FALSE,
     server |-> NoServer, log |-> <<>>]

\* "tmux list-panes -F #{pane_dead}": its output, or the exception of
\* subprocess.run; with the session gone the command exits non-zero
ListPanes == {"1", "0", "CalledProcessError", "FileNotFoundError"}
list_panes(sess, q) ==
    IF sess # "alive" /\ q \in {"1", "0"} THEN "CalledProcessError" ELSE q

\* is_pane_dead: "except subprocess.CalledProcessError: return False"
Caught(exc) == exc = "CalledProcessError"

\* is_pane_dead(window_index): stdout.strip() == "1"; an exception that is
\* not caught reaches the caller
is_pane_dead(sess, q) ==
    LET r == list_panes(sess, q)
    IN [query |-> r,
        raised |-> r \notin {"1", "0"} /\ ~Caught(r),
        dead |-> r = "1"]

\* the counter without its reset on a successful relaunch
PaneFailuresNoReset(count, dead, relaunched) ==
    IF dead
    THEN IF relaunched THEN count ELSE count + 1
    ELSE 0

\* one pane's step of monitor(): relaunch a dead pane and count the failure
\* of the relaunch, or reset the counter
PaneFailures(count, dead, relaunched) ==
    IF dead
    THEN IF relaunched THEN 0 ELSE count + 1
    ELSE 0

\* what the check did to one pane
PaneOutcome(dead, relaunched) ==
    IF dead
    THEN IF relaunched THEN "relaunched" ELSE "failed"
    ELSE "alive"

\* "if ai_failures >= 3 or game_failures >= 3: raise RuntimeError(...)"
RestartFailed(ai, game) == ai >= FailureLimit \/ game >= FailureLimit

\* the outcomes of the latest FailureLimit checks of one pane
Remember(hist, outcome) ==
    IF Len(hist) < FailureLimit THEN Append(hist, outcome)
    ELSE Append(Tail(hist), outcome)

\* the process ends: the daemon thread ends with it
ThreadAtExit == IF mon_pc = "check" THEN "done" ELSE mon_pc

\* the variables of the guard other than the crash file
guardRest == <<g_pc, clock, start, fast_count, crash_env, g_session, g_exit,
               runs, shells>>

\* what a crash file left behind by an earlier process of the same pid holds
StaleMessage == "Exiting app because <an earlier run> crashed."

\* "if crash_file.exists(): crash_file.unlink()";
\* "tmux = TmuxManager(config, crash_file=crash_file)"; RuntimeError when
\* tmux is not installed: "print(e); sys.exit(1)"
SupConstruct(probe, system) ==
    /\ pc = "start"
    /\ crash_file' = ""
    /\ IF is_tmux_available(probe)
       THEN /\ pc' = "created"
            /\ UNCHANGED <<exit_code, printed>>
       ELSE /\ pc' = "exited"
            /\ exit_code' = 1
            /\ printed' = [stream |-> "stdout", text |-> TmuxRequired(system)]
    /\ UNCHANGED <<mon_pc, ai_failures, game_failures, stop_event, session,
                   interrupted, ai_hist, game_hist, kills, created, pane_q>>
    /\ UNCHANGED <<agentVars, guardRest>>

\* create_session, launch_ai_agent, launch_game_runner, monitor.start(),
\* start_pane_monitor(); an exception: "cleanup(); sys.exit(1)" and finally
SupLaunch(stale, fail, ok) ==
    /\ pc = "created"
    /\ LET c == create_session(stale, fail)
           ours == IF "ours" \in c.server.sessions THEN "alive" ELSE "none"
           after == CleanupOnError([session |-> ours, kills |-> kills])
       IN /\ created' = [called |-> TRUE, stale |-> stale, fail |-> fail,
                         raised |-> c.raised, server |-> c.server,
                         log |-> c.log]
          /\ IF ~c.raised /\ ok
             THEN /\ session' = ours
                  /\ mon_pc' = "check"
                  /\ pc' = "attach"
                  /\ UNCHANGED <<stop_event, exit_code, kills, printed>>
             ELSE /\ session' = after.session
                  /\ kills' = after.kills
                  /\ printed' = ErrorPrinted
                  /\ stop_event' = TRUE
                  /\ pc' = "exited"
                  /\ exit_code' = 1
                  /\ UNCHANGED mon_pc
    /\ UNCHANGED <<ai_failures, game_failures, interrupted, ai_hist,
                   game_hist, pane_q>>
    /\ UNCHANGED <<agentVars, guardVars>>

\* tmux.attach(): select-window and attach-session, both check=True; with the
\* session gone they fail: "cleanup(); sys.exit(1)" and finally
SupAttach ==
    /\ pc = "attach"
    /\ IF session = "alive"
       THEN /\ pc' = "attached"
            /\ UNCHANGED <<mon_pc, stop_event, session, exit_code, kills,
                           printed>>
       ELSE LET after == CleanupOnError([session |-> session,
                                         kills |-> kills])
            IN /\ session' = after.session
               /\ kills' = after.kills
               /\ printed' = ErrorPrinted
               /\ stop_event' = TRUE
               /\ mon_pc' = ThreadAtExit
               /\ pc' = "exited"
               /\ exit_code' = 1
    /\ UNCHANGED <<ai_failures, game_failures, interrupted, ai_hist,
                   game_hist, created, pane_q>>
    /\ UNCHANGED <<agentVars, guardVars>>

\* attach-session ends (the user detached, or the session was destroyed) with
\* an exit status; 0: the crash file is read, printed and unlinked, finally
\* runs, run_with_agent and main return; otherwise CalledProcessError:
\* "cleanup(); sys.exit(1)"
SupAttachReturns(status) ==
    /\ pc = "attached"
    /\ LET here == [session |-> session, kills |-> kills]
           after == IF status = 0 THEN CleanupOnReturn(here)
                    ELSE CleanupOnError(here)
       IN /\ session' = after.session
          /\ kills' = after.kills
    /\ IF status = 0
       THEN IF crash_file # ""
            THEN LET read == read_crash_file(crash_file)
                 IN /\ printed' = [stream |-> "stderr",
                                   text |-> <<read.message>>]
                    /\ crash_file' = read.file
            ELSE UNCHANGED <<printed, crash_file>>
       ELSE /\ printed' = ErrorPrinted
            /\ UNCHANGED crash_file
    /\ stop_event' = TRUE
    /\ mon_pc' = ThreadAtExit
    /\ pc' = "exited"
    /\ exit_code' = IF status = 0 THEN 0 ELSE 1
    /\ UNCHANGED <<ai_failures, game_failures, interrupted, ai_hist,
                   game_hist, created, pane_q>>
    /\ UNCHANGED <<agentVars, guardRest>>

\* SIGINT / SIGTERM: before the handler is installed KeyboardInterrupt
\* reaches main(); afterwards signal_handler runs in the main thread and
\* SystemExit passes "except Exception" to the finally block and the atexit
\* hook
Interrupt ==
    /\ pc \in {"start", "created", "attach", "attached"}
    /\ interrupted' = TRUE
    /\ printed' = ExitingPrinted
    /\ IF pc = "start"
       THEN /\ exit_code' = main_interrupted
            /\ UNCHANGED <<session, stop_event, kills>>
       ELSE LET h == signal_handler(session)
                after == CleanupOnReturn([session |-> h.session,
                                          kills |-> kills + 1])
            IN /\ session' = after.session
               /\ kills' = after.kills
               /\ exit_code' = h.exit_code
               /\ stop_event' = TRUE
    /\ mon_pc' = ThreadAtExit
    /\ pc' = "exited"
    /\ UNCHANGED <<ai_failures, game_failures, ai_hist, game_hist, created,
                   pane_q>>
    /\ UNCHANGED <<agentVars, guardVars>>

\* one iteration of monitor(): both panes checked, then the failure test; on
\* the fatal condition, or on any exception that reaches the loop body,
\* "stop_event.set(); tmux.kill_session(); sys.exit(1)": SystemExit raised
\* in the monitor thread ends that thread.  When tmux could not be run the
\* kill-session of the handler cannot run either.
PaneMonitor(ai_q, ai_ok, game_q, game_ok) ==
    /\ mon_pc = "check"
    /\ pc # "exited"
    /\ ~stop_event
    /\ LET a == is_pane_dead(session, ai_q)
           g == is_pane_dead(session, game_q)
           raised == a.raised \/ g.raised
           ai == IF a.raised THEN ai_failures
                 ELSE PaneFailures(ai_failures, a.dead, ai_ok)
           game == IF raised THEN game_failures
                   ELSE PaneFailures(game_failures, g.dead, game_ok)
       IN /\ ai_failures' = ai
          /\ game_failures' = game
          /\ ai_hist' = IF a.raised THEN ai_hist
                        ELSE Remember(ai_hist, PaneOutcome(a.dead, ai_ok))
          /\ game_hist' = IF raised THEN game_hist
                          ELSE Remember(game_hist,
                                        PaneOutcome(g.dead, game_ok))
          /\ pane_q' = [ai |-> a.query,
                        game |-> IF a.raised THEN "none" ELSE g.query]
          /\ IF raised
             THEN /\ stop_event' = TRUE
                  /\ mon_pc' = "aborted"
                  /\ kills' = kills + 1
                  /\ UNCHANGED session
             ELSE IF RestartFailed(ai, game)
             THEN /\ stop_event' = TRUE
                  /\ session' = kill_session(session)
                  /\ kills' = kills + 1
                  /\ mon_pc' = "fatal"
             ELSE UNCHANGED <<stop_event, session, mon_pc, kills>>
    /\ UNCHANGED <<pc, exit_code, interrupted, printed, created>>
    /\ UNCHANGED <<agentVars, guardVars>>

\* the guard's variables a step of the supervisor's guard leaves alone
guardIdle == <<clock, start, fast_count, crash_env, runs, shells>>

\* the restart guard of a pane detects a crash loop: "printf '%s\n'
\* <message> > $AGENT_ARCADE_CRASH_FILE" (the variable is always exported
\* by run_with_agent), then "sleep 2"
GuardWritesCrash ==
    /\ pc \in {"attach", "attached"}
    /\ session = "alive"
    /\ g_pc = "absent"
    /\ g_pc' = "crashed"
    /\ crash_file' = CrashMessage
    /\ UNCHANGED <<g_session, g_exit, guardIdle>>
    /\ UNCHANGED <<supVars, agentVars>>

\* "tmux kill-session -t <session>; exit 1" of the guard that wrote the
\* message; a guard whose session was killed meanwhile has died with it
GuardKillsSession ==
    /\ pc \in {"attach", "attached"}
    /\ session = "alive"
    /\ g_pc = "crashed"
    /\ g_pc' = "exited"
    /\ g_session' = "killed"
    /\ g_exit' = 1
    /\ session' = "killed"
    /\ UNCHANGED <<pc, mon_pc, ai_failures, game_failures, stop_event,
                   exit_code, interrupted, ai_hist, game_hist, printed,
                   kills, created, pane_q>>
    /\ UNCHANGED <<agentVars, crash_file, guardIdle>>

\* the user presses the exit key: "bind-key -n <exit_key> kill-session"
ExitKey ==
    /\ pc = "attached"
    /\ session = "alive"
    /\ "exit" \in created.server.bindings
    /\ session' = "killed"
    /\ UNCHANGED <<pc, mon_pc, ai_failures, game_failures, stop_event,
                   exit_code, interrupted, ai_hist, game_hist, printed,
                   kills, created, pane_q>>
    /\ UNCHANGED <<agentVars, guardVars>>

InitSupervisor ==
    /\ pc = "start"
    /\ mon_pc = "none"
    /\ ai_failures = 0
    /\ game_failures = 0
    /\ stop_event = FALSE
    /\ session = "none"
    /\ exit_code = NoExit
    /\ interrupted = FALSE
    /\ ai_hist = <<>>
    /\ game_hist = <<>>
    /\ printed = NothingPrinted
    /\ kills = 0
    /\ created = NotCreated
    /\ pane_q = [ai |-> "none", game |-> "none"]
    /\ AgentAbsent
    /\ g_pc = "absent" /\ clock = 0 /\ start = 0 /\ fast_count = 0
    /\ crash_env = TRUE /\ g_session = "none" /\ g_exit = NoExit
    /\ runs = <<>> /\ shells = <<>>
    /\ crash_file \in {"", StaleMessage}

NextSupervisor ==
    \/ \E probe \in TmuxProbes, system \in Systems :
          SupConstruct(probe, system)
    \/ \E stale \in BOOLEAN, fail \in {"none"} \cup {Commands[i] : i \in 1..Len(Commands)},
          ok \in BOOLEAN : SupLaunch(stale, fail, ok)
    \/ SupAttach
    \/ \E status \in {0, 1} : SupAttachReturns(status)
    \/ Interrupt
    \/ \E ai_q, game_q \in ListPanes, ai_ok, game_ok \in BOOLEAN :
          PaneMonitor(ai_q, ai_ok, game_q, game_ok)
    \/ GuardWritesCrash
    \/ GuardKillsSession
    \/ ExitKey

SpecSupervisor == InitSupervisor /\ [][NextSupervisor]_vars

\* ------------------------------------------------------------------------
\* Properties of the supervisor (SpecSupervisor)
\* ------------------------------------------------------------------------
\* C8: when a pane was dead on 3 consecutive pane-health checks and every
\* relaunch raised, the session is killed and the supervising process
\* ends with a non-zero exit code.
C8_FatalExitsNonZero ==
    (mon_pc = "fatal" /\ pc = "exited" /\ ~interrupted) =>
        (session = "killed" /\ exit_code # 0)

\* C9: the pane-health loop raises its fatal condition only when the
\* relaunch of one pane failed on 3 consecutive checks; each counter is
\* the number of failed relaunches of its own pane since that pane's last
\* successful relaunch or not-dead observation, so failures below 3 tear
\* nothing down and one pane's failure never advances the other's counter.
C9_ThreeInARow ==
    LET failed(hist) == {i \in 1..Len(hist) : hist[i] = "failed"}
        trailing(hist) ==
            Cardinality({i \in 1..Len(hist) :
                            \A j \in i..Len(hist) : hist[j] = "failed"})
        allFailed(hist) == Len(hist) = FailureLimit
                           /\ failed(hist) = 1..FailureLimit
    IN /\ ai_failures = trailing(ai_hist)
       /\ game_failures = trailing(game_hist)
       /\ (mon_pc = "fatal") => (allFailed(ai_hist) \/ allFailed(game_hist))
       /\ (allFailed(ai_hist) \/ allFailed(game_hist))
             => mon_pc \in {"fatal", "aborted"}
       /\ (mon_pc = "check" /\ pc # "exited" /\ ~interrupted
             /\ session = "alive") => ~stop_event

\* C9: a relaunch failed once and succeeded on the next check while the
\* other pane's relaunch kept failing below the limit; the loop goes on
C9_Witness ==
    /\ mon_pc = "check"
    /\ session = "alive"
    /\ Len(ai_hist) = FailureLimit
    /\ ai_hist[FailureLimit - 1] = "failed"
    /\ ai_hist[FailureLimit] = "relaunched"
    /\ ai_failures = 0
    /\ game_failures = FailureLimit - 1

\* C10 as stated: after an interrupt the session is killed and the
\* process exits with code 130.
C10_Original ==
    (interrupted /\ pc = "exited") =>
        (session # "alive" /\ exit_code = 130)

\* C10, amended: when the user interrupts the supervisor (SIGINT /
\* KeyboardInterrupt) the tmux session, if one was created, is killed and
\* the supervising process exits with code 0.
C10_Amended ==
    (interrupted /\ pc = "exited") =>
        (session # "alive" /\ exit_code = 0)

\* C10: the interrupt came while the supervisor was attached
C10_Witness ==
    /\ interrupted
    /\ pc = "exited"
    /\ session = "killed"
    /\ exit_code = 0

\* C11: when the crash guard has triggered (a crash loop was detected and
\* the restart guard's shell tore the session down), the supervising
\* process exits with code 1.
C11_CrashExitsOne ==
    (/\ pc = "exited"
     /\ ~interrupted
     /\ crash_file # "" \/ printed.text = <<CrashMessage>>)
        => exit_code = 1

\* C12: when tmux is not installed, constructing the TmuxManager fails
\* with an error that carries a platform-specific install hint, and the
\* supervisor exits with code 1 without having issued any command that
\* creates a session, launches a pane or kills a session.
C12_NoTmuxNoSession ==
    (pc = "exited" /\ ~interrupted /\ ~created.called) =>
        /\ exit_code = 1
        /\ session = "none"
        /\ kills = 0
        /\ mon_pc = "none"
        /\ created = NotCreated
        /\ Len(printed.text) = 3
        /\ printed.text[1] = "tmux is required but not installed."
        /\ printed.text[2] # ""
        /\ \E system \in Systems : printed.text = TmuxRequired(system)
        /\ (printed.text[2] = "Install tmux with: brew install tmux")
              \/ (printed.text[2] = "Install tmux with your system package manager.")
              \/ (printed.text[2] = "Install tmux with: sudo apt-get install tmux (Debian/Ubuntu) or sudo yum install tmux (RHEL/CentOS)")

\* C12: the tmux probe failed on a Linux host; the hint names apt-get/yum
C12_Witness ==
    /\ pc = "exited"
    /\ exit_code = 1
    /\ ~created.called
    /\ session = "none"
    /\ printed.text = TmuxRequired("linux")

\* C15: is_pane_dead returns False whenever the liveness query fails for
\* any reason (the session or window is missing, tmux reports an error,
\* tmux cannot be run) and True only when tmux reports pane_dead = 1; it
\* never raises to the pane-health loop.
C15_FailOpen ==
    /\ mon_pc # "aborted"
    /\ pane_q.ai # "none" =>
          ((ai_hist[Len(ai_hist)] # "alive") <=> (pane_q.ai = "1"))
    /\ pane_q.game # "none" =>
          ((game_hist[Len(game_hist)] # "alive") <=> (pane_q.game = "1"))

\* C36: once the tmux session has been killed, a check of the pane-health
\* loop attempts no relaunch and does not end the loop with its fatal
\* condition: both liveness queries fail, count as not dead, and both
\* failure counters are reset to 0.
C36_QuietAfterKill ==
    [][(
        (/\ session = "killed"
         /\ mon_pc = "check"
         /\ pc' = pc
         /\ <<ai_hist, game_hist, pane_q, mon_pc>>'
                # <<ai_hist, game_hist, pane_q, mon_pc>>) =>
            /\ mon_pc' = "check"
            /\ ai_failures' = 0 /\ game_failures' = 0
            /\ ai_hist' # <<>> /\ ai_hist'[Len(ai_hist')] = "alive"
            /\ game_hist' # <<>> /\ game_hist'[Len(game_hist')] = "alive"
       )]_vars

\* C16: create_session kills an existing session of the configured name
\* before it creates the new one, so a leftover session never makes it
\* fail; when it returns, exactly one session of that name exists, the
\* new one, with window 0 and window 1 and with the toggle-window and exit
\* key bindings installed.
C16_FreshSession ==
    created.called =>
        /\ created.fail = "none" => ~created.raised
        /\ created.stale =>
              \E i, j \in 1..Len(created.log) :
                 /\ i < j
                 /\ created.log[i] = "kill-session"
                 /\ created.log[j] = "new-session"
        /\ ~created.stale =>
              \A i \in 1..Len(created.log) : created.log[i] # "kill-session"
        /\ ~created.raised =>
              /\ created.server.sessions = {"ours"}
              /\ created.server.windows = {0, 1}
              /\ created.server.bindings = {"toggle", "exit"}

\* C16: a session of the same name was left over, and create_session
\* returned; the supervisor goes on to attach
C16_Witness ==
    /\ created.called
    /\ created.stale
    /\ ~created.raised
    /\ pc = "attach"
    /\ session = "alive"

\* C17: on every path by which run_with_agent ends after create_session
\* was called (attach returning, an exception during launch or attach,
\* SIGINT / SIGTERM) kill_session has been issued before the process
\* exits and no session is left; kill_session on a session that is already
\* gone raises nothing, so the repeated calls do not change the exit code.
C17_KilledBeforeExit ==
    (pc = "exited" /\ created.called) =>
        /\ kills >= 1
        /\ session # "alive"
        /\ exit_code \in {0, 1}
        /\ (printed \in {NothingPrinted, ExitingPrinted}
              \/ printed.text = <<CrashMessage>>) => exit_code = 0

\* C17: attach returned normally; the finally block and the exit hook both
\* ran kill_session, the second time on a session already gone
C17_Witness ==
    /\ pc = "exited"
    /\ created.called
    /\ ~interrupted
    /\ kills >= 2
    /\ session = "killed"
    /\ exit_code = 0

\* C22: when the crash guard triggers, the non-empty crash message is in
\* the crash file before the guard kills the session and stays there while
\* the supervisor runs; once attach-session has returned, the supervisor
\* has read the file, printed that message to stderr and deleted the file,
\* so that no crash file exists when the process exits.
C22_CrashFileConsumed ==
    /\ CrashMessage # ""
    /\ (g_pc \in {"crashed", "exited"} /\ pc # "exited") =>
          crash_file = CrashMessage
    /\ (g_pc = "exited") => (session # "alive")
    /\ (pc = "exited" /\ exit_code = 0 /\ ~interrupted) =>
          /\ crash_file = ""
          /\ (g_pc \in {"crashed", "exited"}) <=>
                (printed = [stream |-> "stderr", text |-> <<CrashMessage>>])

\* C22: the guard wrote the message, killed the session, attach-session
\* returned and the supervisor consumed the file
C22_Witness ==
    /\ pc = "exited"
    /\ g_pc = "exited"
    /\ exit_code = 0
    /\ ~interrupted
    /\ printed.text = <<CrashMessage>>
    /\ crash_file = ""

====
